---- MODULE Spec2Model ----
(***************************************************************************)
(* Model of the browser-side document-link resolver (window.urlDecoder,    *)
(* app/static/js/url-decoder.js), of the backend-proxied variant           *)
(* DynamicContainer.createDownloadLink and of the debug logger it calls.   *)
(*                                                                         *)
(* JavaScript strings are sequences of code units (naturals); a string     *)
(* literal of the source is written Str(<<"h","t","t","p">>).              *)
(***************************************************************************)
EXTENDS Integers, Sequences, FiniteSets, TLC

----------------------------------------------------------------------------
(* Strings                                                                 *)

\* The printable ASCII characters, code units 32..126 in order (the double
\* quote, the backslash and the backtick are written by name).
Printable ==
 <<
    " ", "!", "dquote", "#", "$", "%", "&", "'", "(", ")", "*", "+", ",", "-", ".", "/",
    "0", "1", "2", "3", "4", "5", "6", "7", "8", "9", ":", ";", "<", "=", ">", "?",
    "@", "A", "B", "C", "D", "E", "F", "G", "H", "I", "J", "K", "L", "M", "N", "O",
    "P", "Q", "R", "S", "T", "U", "V", "W", "X", "Y", "Z", "[", "backslash", "]", "^", "_",
    "backtick", "a", "b", "c", "d", "e", "f", "g", "h", "i", "j", "k", "l", "m", "n", "o",
    "p", "q", "r", "s", "t", "u", "v", "w", "x", "y", "z", "{", "|", "}", "~"
 >>

\* Code unit of a one-character literal.
Ord(c) == 31 + CHOOSE i \in 1..Len(Printable) : Printable[i] = c

\* A string literal as a sequence of code units.
Str(cs) == [i \in 1..Len(cs) |-> Ord(cs[i])]

\* String.prototype.slice(from) / substring(0, n) / slice(0, -1), 0-based as in JS.
\* Positions beyond the end are clamped to the length.
Min(a, b) == IF a <= b THEN a ELSE b
SliceFrom(s, from) == SubSeq(s, Min(from, Len(s)) + 1, Len(s))
Substring0(s, n) == SubSeq(s, 1, Min(n, Len(s)))
DropLast(s) == SubSeq(s, 1, Len(s) - 1)

\* s.startsWith(p) at 0-based position pos.
StartsWithAt(s, p, pos) ==
    /\ pos + Len(p) <= Len(s)
    /\ \A k \in 1..Len(p) : s[pos + k] = p[k]

StartsWith(s, p) == StartsWithAt(s, p, 0)
EndsWith(s, p) == Len(p) <= Len(s) /\ StartsWithAt(s, p, Len(s) - Len(p))

\* s.indexOf(p): 0-based index of the first occurrence, -1 when there is none.
IndexOf(s, p) ==
    LET hits == {i \in 0..Len(s) : StartsWithAt(s, p, i)}
    IN  IF hits = {} THEN -1 ELSE CHOOSE i \in hits : \A j \in hits : i <= j

\* s.includes(p)
Includes(s, p) == IndexOf(s, p) # -1

\* String.prototype.toLowerCase on code units below 256.
ToLowerCase(s) ==
    LET LowerUnit(c) ==
            IF c >= 65 /\ c <= 90 THEN c + 32
            ELSE IF c >= 192 /\ c <= 222 /\ c # 215 THEN c + 32
            ELSE c
    IN  [i \in 1..Len(s) |-> LowerUnit(s[i])]

\* Characters String.prototype.trim removes (those that occur below 256).
IsTrimSpace(c) == c \in {9, 10, 11, 12, 13, 32, 160}

RECURSIVE TrimStart(_)
TrimStart(s) ==
    IF Len(s) > 0 /\ IsTrimSpace(s[1]) THEN TrimStart(Tail(s)) ELSE s

RECURSIVE TrimEnd(_)
TrimEnd(s) ==
    IF Len(s) > 0 /\ IsTrimSpace(s[Len(s)]) THEN TrimEnd(DropLast(s)) ELSE s

Trim(s) == TrimEnd(TrimStart(s))

----------------------------------------------------------------------------
(* Base64: btoa (producer side) and atob (browser builtin)                 *)

\* A call that either returns a value or throws.
Returned(v) == [ok |-> TRUE, val |-> v]
Threw == [ok |-> FALSE, val |-> <<>>]

\* Value 0..63 of a character of the Base64 alphabet, -1 for any other.
B64Val(c) ==
    IF c >= 65 /\ c <= 90 THEN c - 65
    ELSE IF c >= 97 /\ c <= 122 THEN c - 71
    ELSE IF c >= 48 /\ c <= 57 THEN c + 4
    ELSE IF c = Ord("+") THEN 62
    ELSE IF c = Ord("/") THEN 63
    ELSE -1

\* Character of the Base64 alphabet with value v.
B64Chr(v) ==
    IF v < 26 THEN v + 65
    ELSE IF v < 52 THEN v + 71
    ELSE IF v < 62 THEN v - 4
    ELSE IF v = 62 THEN Ord("+")
    ELSE Ord("/")

\* safeBtoa / polyfillBtoa: standard Base64 of a binary string (units < 256).
\* Character i of the output belongs to the group of three bytes starting at
\* byte k; a group the input does not fill is completed with '='.
Btoa(b) ==
    LET byteAt(k) == IF k <= Len(b) THEN b[k] ELSE 0
        charAt(i) ==
            LET k == 3 * ((i - 1) \div 4) + 1
                r == (i - 1) % 4
            IN  IF r = 0 THEN B64Chr(byteAt(k) \div 4)
                ELSE IF r = 1 THEN
                    B64Chr((byteAt(k) % 4) * 16 + byteAt(k + 1) \div 16)
                ELSE IF r = 2 THEN
                    IF k + 1 > Len(b) THEN Ord("=")
                    ELSE B64Chr((byteAt(k + 1) % 16) * 4 + byteAt(k + 2) \div 64)
                ELSE
                    IF k + 2 > Len(b) THEN Ord("=")
                    ELSE B64Chr(byteAt(k + 2) % 64)
    IN  [i \in 1..(4 * ((Len(b) + 2) \div 3)) |-> charAt(i)]

\* Bytes of a run of Base64 characters without padding; the bits left over
\* after the last whole byte are discarded.
DecodeSextets(s) ==
    LET v(j) == B64Val(s[j])
        byteAt(i) ==
            LET g == 4 * ((i - 1) \div 3)
                r == (i - 1) % 3
            IN  IF r = 0 THEN v(g + 1) * 4 + v(g + 2) \div 16
                ELSE IF r = 1 THEN (v(g + 2) % 16) * 16 + v(g + 3) \div 4
                ELSE (v(g + 3) % 4) * 64 + v(g + 4)
    IN  [i \in 1..((Len(s) * 6) \div 8) |-> byteAt(i)]

\* atob: the forgiving-base64 decode of the platform.  ASCII whitespace is
\* removed; when the length is a multiple of 4 one or two trailing '=' are
\* removed; a length of 1 modulo 4 or any character outside A-Za-z0-9+/
\* throws.
Atob(s) ==
    LET noWs == SelectSeq(s, LAMBDA c : c \notin {9, 10, 12, 13, 32})
        n == Len(noWs)
        data ==
            IF n % 4 = 0 /\ n > 0 /\ noWs[n] = Ord("=")
            THEN IF noWs[n - 1] = Ord("=")
                 THEN SubSeq(noWs, 1, n - 2)
                 ELSE SubSeq(noWs, 1, n - 1)
            ELSE noWs
    IN  IF Len(data) % 4 = 1 \/ \E i \in 1..Len(data) : B64Val(data[i]) = -1
        THEN Threw
        ELSE Returned(DecodeSextets(data))

\* decodeURIComponent applied to a string made only of %XX escapes: the
\* bytes are read as UTF-8 and an ill-formed sequence throws URIError.  A
\* code point above 0xFFFF becomes a surrogate pair.
RECURSIVE Utf8Decode(_)
Utf8Decode(b) ==
    IF Len(b) = 0 THEN Returned(<<>>)
    ELSE
      LET c == b[1]
          n == IF c < 128 THEN 1
               ELSE IF c < 192 THEN 0
               ELSE IF c < 224 THEN 2
               ELSE IF c < 240 THEN 3
               ELSE IF c < 248 THEN 4
               ELSE 0
          contOk == /\ n >= 1
                    /\ Len(b) >= n
                    /\ \A k \in 2..n : b[k] >= 128 /\ b[k] < 192
          cp == IF n = 1 THEN c
                ELSE IF n = 2 THEN (c - 192) * 64 + (b[2] - 128)
                ELSE IF n = 3 THEN
                    (c - 224) * 4096 + (b[2] - 128) * 64 + (b[3] - 128)
                ELSE (c - 240) * 262144 + (b[2] - 128) * 4096
                     + (b[3] - 128) * 64 + (b[4] - 128)
          cpOk == IF n = 1 THEN TRUE
                  ELSE IF n = 2 THEN cp >= 128
                  ELSE IF n = 3 THEN cp >= 2048 /\ ~(cp >= 55296 /\ cp <= 57343)
                  ELSE cp >= 65536 /\ cp <= 1114111
          units == IF cp < 65536 THEN <<cp>>
                   ELSE <<55296 + (cp - 65536) \div 1024,
                          56320 + ((cp - 65536) % 1024)>>
      IN  IF ~contOk THEN Threw
          ELSE IF ~cpOk THEN Threw
          ELSE LET rest == Utf8Decode(SubSeq(b, n + 1, Len(b)))
               IN  IF rest.ok THEN Returned(units \o rest.val) ELSE Threw

----------------------------------------------------------------------------
(* window.urlDecoder.customBase64Decode                                    *)

\* A character of the class [A-Za-z0-9+/=].
IsBase64Char(c) == B64Val(c) # -1 \/ c = Ord("=")

\* input.replace(/[^A-Za-z0-9+/=]+$/, ''): drops the trailing run of
\* characters outside the class.
RECURSIVE StripTrailingNonBase64(_)
StripTrailingNonBase64(s) ==
    IF Len(s) > 0 /\ ~IsBase64Char(s[Len(s)])
    THEN StripTrailingNonBase64(DropLast(s))
    ELSE s

\* cleanInput + '='.repeat((4 - cleanInput.length % 4) % 4)
PadBase64(s) == s \o [i \in 1..((4 - (Len(s) % 4)) % 4) |-> Ord("=")]

\* padded.replace(/-/g, '+').replace(/_/g, '/')
UrlSafeToStandard(s) ==
    [i \in 1..Len(s) |->
        IF s[i] = Ord("-") THEN Ord("+")
        ELSE IF s[i] = Ord("_") THEN Ord("/")
        ELSE s[i]]

\* The second attempt: atob of the URL-safe rewrite, every byte written as
\* %XX and the whole passed to decodeURIComponent.
FallbackDecode(padded) ==
    LET Percent(bin) == IF bin.ok THEN Utf8Decode(bin.val) ELSE Threw
    IN  Percent(Atob(UrlSafeToStandard(padded)))

\* customBase64Decode without the retry on the input less its last character.
customBase64DecodeNoRetry(input) ==
    IF Len(input) = 0 THEN <<>>
    ELSE
      LET Attempts(first, second) ==
              IF first.ok THEN first.val
              ELSE IF second.ok THEN second.val
              ELSE input
          Padded(padded) == Attempts(Atob(padded), FallbackDecode(padded))
      IN  Padded(PadBase64(StripTrailingNonBase64(input)))

\* customBase64Decode(input).  Each value the function computes once is the
\* parameter of a step: the two decoding attempts, the padded input they
\* are made on, the cleaned input.
RECURSIVE customBase64Decode(_)
customBase64Decode(input) ==
    IF Len(input) = 0 THEN <<>>
    ELSE
      LET Attempts(cleanInput, first, second) ==
              IF first.ok THEN first.val
              ELSE IF second.ok THEN second.val
              ELSE IF Len(cleanInput) > 1
                   THEN customBase64Decode(DropLast(cleanInput))
              ELSE input
          Padded(cleanInput, padded) ==
              Attempts(cleanInput, Atob(padded), FallbackDecode(padded))
          Cleaned(cleanInput) == Padded(cleanInput, PadBase64(cleanInput))
      IN  Cleaned(StripTrailingNonBase64(input))

\* customBase64DecodeCalls retrying also on the empty string.
RECURSIVE customBase64DecodeCallsRetryEmpty(_)
customBase64DecodeCallsRetryEmpty(input) ==
    IF Len(input) = 0 THEN <<[input |-> input, decoded |-> FALSE]>>
    ELSE
      LET Attempts(cleanInput, decoded) ==
              <<[input |-> input, decoded |-> decoded]>>
              \o (IF ~decoded /\ Len(cleanInput) > 0
                  THEN customBase64DecodeCallsRetryEmpty(DropLast(cleanInput))
                  ELSE <<>>)
          Padded(cleanInput, padded) ==
              Attempts(cleanInput, Atob(padded).ok \/ FallbackDecode(padded).ok)
          Cleaned(cleanInput) == Padded(cleanInput, PadBase64(cleanInput))
      IN  Cleaned(StripTrailingNonBase64(input))

\* The calls of customBase64Decode that one call of it makes, the outermost
\* first: the input of each and whether one of its two attempts decoded it
\* (the empty input returns before any attempt).
RECURSIVE customBase64DecodeCalls(_)
customBase64DecodeCalls(input) ==
    IF Len(input) = 0 THEN <<[input |-> input, decoded |-> FALSE]>>
    ELSE
      LET Attempts(cleanInput, decoded) ==
              <<[input |-> input, decoded |-> decoded]>>
              \o (IF ~decoded /\ Len(cleanInput) > 1
                  THEN customBase64DecodeCalls(DropLast(cleanInput))
                  ELSE <<>>)
          Padded(cleanInput, padded) ==
              Attempts(cleanInput, Atob(padded).ok \/ FallbackDecode(padded).ok)
          Cleaned(cleanInput) == Padded(cleanInput, PadBase64(cleanInput))
      IN  Cleaned(StripTrailingNonBase64(input))

----------------------------------------------------------------------------
(* window.urlDecoder.decodeAndCleanUrl                                     *)

\* A value that is a string or null.
Null == [null |-> TRUE, s |-> <<>>]
Some(str) == [null |-> FALSE, s |-> str]

\* One call of window.debugLogger.log(message, category, data); the data
\* object and the timestamp of the entry are not kept.
Entry(m, c) == [message |-> m, category |-> c]

\* The Base64 literal decodeAndCleanUrl compares its input with, and the URL
\* it returns for it.
KnownBadBase64 ==
    Str(<<
    "a", "H", "R", "0", "c", "H", "M", "6", "L", "y", "9", "j", "Y", "X",
    "B", "v", "e", "n", "p", "v", "b", "D", "A", "y", "c", "3", "R", "v",
    "c", "m", "F", "n", "Z", "S", "5", "i", "b", "G", "9", "i", "L", "m",
    "N", "v", "c", "m", "U", "u", "d", "2", "l", "u", "Z", "G", "9", "3",
    "c", "y", "5", "u", "Z", "X", "Q", "v", "Y", "m", "l", "n", "b", "2",
    "x", "w", "b", "3", "R", "v", "Z", "m", "R", "h", "d", "G", "V", "y",
    "L", "2", "Z", "p", "Z", "W", "x", "k", "c", "G", "9", "y", "d", "G",
    "F", "s", "L", "2", "Z", "w", "M", "S", "9", "H", "Y", "X", "M", "l",
    "M", "j", "B", "D", "a", "H", "J", "v", "b", "W", "F", "0", "b", "2",
    "d", "y", "Y", "X", "B", "o", "e", "S", "U", "y", "M", "C", "h", "Q",
    "T", "C", "U", "y", "M", "E", "F", "a", "K", "S", "9", "Q", "c", "m",
    "9", "j", "Z", "W", "R", "1", "c", "m", "U", "v", "R", "0", "M", "l",
    "M", "j", "B", "U", "c", "m", "9", "1", "Y", "m", "x", "l", "c", "2",
    "h", "v", "b", "3", "R", "p", "b", "m", "c", "l", "M", "j", "B", "H",
    "d", "W", "l", "k", "Z", "S", "U", "y", "M", "C", "0", "l", "M", "j",
    "B", "G", "S", "U", "Q", "u", "c", "G", "R", "m", "0"
    >>)

KnownBadUrl ==
    Str(<<
    "h", "t", "t", "p", "s", ":", "/", "/", "c", "a", "p", "o", "z", "z",
    "o", "l", "0", "2", "s", "t", "o", "r", "a", "g", "e", ".", "b", "l",
    "o", "b", ".", "c", "o", "r", "e", ".", "w", "i", "n", "d", "o", "w",
    "s", ".", "n", "e", "t", "/", "b", "i", "g", "o", "l", "p", "o", "t",
    "o", "f", "d", "a", "t", "e", "r", "/", "f", "i", "e", "l", "d", "p",
    "o", "r", "t", "a", "l", "/", "f", "p", "1", "/", "G", "a", "s", "%",
    "2", "0", "C", "h", "r", "o", "m", "a", "t", "o", "g", "r", "a", "p",
    "h", "y", "%", "2", "0", "(", "P", "L", "%", "2", "0", "A", "Z", ")",
    "/", "P", "r", "o", "c", "e", "d", "u", "r", "e", "/", "G", "C", "%",
    "2", "0", "T", "r", "o", "u", "b", "l", "e", "s", "h", "o", "o", "t",
    "i", "n", "g", "%", "2", "0", "G", "u", "i", "d", "e", "%", "2", "0",
    "-", "%", "2", "0", "F", "I", "D", ".", "p", "d", "f"
    >>)

HTTP == Str(<<"h", "t", "t", "p">>)
Prefixes == {Str(<<"h", "t", "t", "p", ":", "/", "/">>),
             Str(<<"h", "t", "t", "p", "s", ":", "/", "/">>)}
DotPdf == Str(<<".", "p", "d", "f">>)
DotTxt == Str(<<".", "t", "x", "t">>)
Extensions == {DotPdf, DotTxt, Str(<<".", "c", "s", "v">>)}

\* Characters the regular expression's '.' does not match.
IsLineTerminator(c) == c \in {10, 13, 8232, 8233}

\* The pattern text p matches s at 0-based pos under the i flag (the pattern
\* holds lower-case ASCII only, and only ASCII letters fold onto it).
MatchesIgnoreCaseAt(s, p, pos) ==
    /\ pos + Len(p) <= Len(s)
    /\ \A k \in 1..Len(p) :
         (IF s[pos + k] >= 65 /\ s[pos + k] <= 90
          THEN s[pos + k] + 32 ELSE s[pos + k]) = p[k]

\* decodeURIComponent(escape(raw)): escape writes every unit below 256 that
\* it does not keep as %XX, so the units are read back as UTF-8 bytes; a
\* unit above 255 is written %uXXXX, which decodeURIComponent rejects.
UriDecodeEscaped(raw) ==
    IF \E i \in 1..Len(raw) : raw[i] > 255 THEN Threw ELSE Utf8Decode(raw)

\* decoded.match(/https?:\/\/.*?\.(pdf|txt|csv)(?:.*)?/i): m[0] of the
\* leftmost match, or null.  A match starts at a prefix that is followed on
\* the same line by an extension, and the greedy tail runs to the end of that
\* line.
UrlRegexMatch(decoded) ==
    LET n == Len(decoded)
        startsAt(i) ==
            \E p \in Prefixes :
              /\ MatchesIgnoreCaseAt(decoded, p, i)
              /\ \E j \in (i + Len(p))..n :
                   /\ \E e \in Extensions : MatchesIgnoreCaseAt(decoded, e, j)
                   /\ \A k \in (i + Len(p) + 1)..j : ~IsLineTerminator(decoded[k])
        starts == {i \in 0..n : startsAt(i)}
        first == CHOOSE i \in starts : \A j \in starts : i <= j
        stops == {k \in (first + 1)..n : IsLineTerminator(decoded[k])}
        last == IF stops = {} THEN n
                ELSE (CHOOSE k \in stops : \A j \in stops : k <= j) - 1
    IN  IF starts = {} THEN Null ELSE Some(SubSeq(decoded, first + 1, last))

\* The trimming of the match: cut after the first '.pdf' of the lower-cased
\* match when there is one.
TrimAfterPdf(m0) ==
    LET pdfIndex == IndexOf(ToLowerCase(m0), DotPdf)
    IN  IF pdfIndex # -1 THEN Substring0(m0, pdfIndex + 4) ELSE m0

\* decodeAndCleanUrl(b64) for a string b64: the returned {raw, cleaned} and
\* the calls to the logger on the way.
decodeAndCleanUrl(b64) ==
    IF Len(b64) = 0 THEN [raw |-> Null, cleaned |-> Null, log |-> <<>>]
    ELSE IF b64 = KnownBadBase64 THEN
        [raw |-> Some(KnownBadUrl), cleaned |-> Some(KnownBadUrl),
         log |-> <<Entry("decodeAndCleanUrl input", "debug")>>]
    ELSE
      LET Matched(raw, retrying, uriOk, m) ==
              [raw |-> Some(raw),
               cleaned |-> IF m.null THEN Null ELSE Some(TrimAfterPdf(m.s)),
               log |->
                 <<Entry("decodeAndCleanUrl input", "debug"),
                   Entry("Raw decoded string", "debug")>>
                 \o (IF retrying
                     THEN <<Entry("Retry decoded string after truncation",
                                  "debug")>>
                     ELSE <<>>)
                 \o (IF uriOk
                     THEN <<Entry("URI-decoded string", "debug")>>
                     ELSE <<Entry("Error in URI decoding", "error")>>)
                 \o <<Entry("URL regex result", "debug")>>
                 \o (IF ~m.null
                     THEN <<Entry("Cleaned URL before trimming", "debug")>>
                     ELSE <<>>)
                 \o (IF ~m.null /\ IndexOf(ToLowerCase(m.s), DotPdf) # -1
                     THEN <<Entry("Cleaned URL after trimming", "debug")>>
                     ELSE <<>>)]
          UriDecoded(raw, retrying, uri) ==
              Matched(raw, retrying, uri.ok,
                      UrlRegexMatch(IF uri.ok THEN uri.val ELSE raw))
          Raw(raw, retrying) == UriDecoded(raw, retrying, UriDecodeEscaped(raw))
          Retried(first, retryResult) ==
              Raw(IF Includes(retryResult, HTTP) THEN retryResult ELSE first,
                  TRUE)
          First(first) ==
              IF ~Includes(first, HTTP) /\ Len(b64) > 1
              THEN Retried(first, customBase64Decode(DropLast(Trim(b64))))
              ELSE Raw(first, FALSE)
      IN  First(customBase64Decode(Trim(b64)))

----------------------------------------------------------------------------
(* window.urlDecoder.sanitizeSasToken and appendSasToken                   *)

DQuote == <<Ord("dquote")>>
SQuote == <<Ord("'")>>
QMark == <<Ord("?")>>
Amp == <<Ord("&")>>

\* The character references the tokens of this model can hold, by name
\* (without the semicolon), and the character each stands for.
EntityNames ==
    {Str(<<"&", "a", "m", "p">>), Str(<<"&", "q", "u", "o", "t">>),
     Str(<<"&", "l", "t">>), Str(<<"&", "g", "t">>),
     Str(<<"&", "#", "3", "9">>), Str(<<"&", "#", "x", "2", "7">>),
     Str(<<"&", "#", "3", "8">>)}

EntityChar(name) ==
    IF name = Str(<<"&", "a", "m", "p">>) THEN Ord("&")
    ELSE IF name = Str(<<"&", "#", "3", "8">>) THEN Ord("&")
    ELSE IF name = Str(<<"&", "q", "u", "o", "t">>) THEN Ord("dquote")
    ELSE IF name = Str(<<"&", "l", "t">>) THEN Ord("<")
    ELSE IF name = Str(<<"&", "g", "t">>) THEN Ord(">")
    ELSE Ord("'")

\* textarea.innerHTML = t; textarea.value: the text is tokenised once, left
\* to right; a character reference is replaced by its character (the closing
\* semicolon is consumed when present) and the output is not scanned again.
RECURSIVE HtmlDecode(_)
HtmlDecode(t) ==
    IF Len(t) = 0 THEN <<>>
    ELSE
      LET names == {e \in EntityNames : StartsWith(t, e)}
      IN  IF names = {} THEN <<t[1]>> \o HtmlDecode(Tail(t))
          ELSE
            LET e == CHOOSE x \in names : TRUE
                semi == IF Len(t) > Len(e) /\ t[Len(e) + 1] = Ord(";")
                        THEN 1 ELSE 0
            IN  <<EntityChar(e)>> \o HtmlDecode(SliceFrom(t, Len(e) + semi))

\* StripQuotes slicing as soon as one end carries a quote character.
StripQuotesEitherEnd(t) ==
    IF StartsWith(t, DQuote) \/ EndsWith(t, DQuote)
       \/ StartsWith(t, SQuote) \/ EndsWith(t, SQuote)
    THEN SubSeq(t, 2, Len(t) - 1)
    ELSE t

\* t.slice(1, -1) when both ends carry the same quote character.
StripQuotes(t) ==
    IF (StartsWith(t, DQuote) /\ EndsWith(t, DQuote))
       \/ (StartsWith(t, SQuote) /\ EndsWith(t, SQuote))
    THEN SubSeq(t, 2, Len(t) - 1)
    ELSE t

\* sanitizeSasToken(token) for a token that is a string or null: the string
\* returned and the calls to the logger.
sanitizeSasToken(token) ==
    IF token.null \/ Len(token.s) = 0 THEN [val |-> <<>>, log |-> <<>>]
    ELSE
      LET Decoded(stripped, value) ==
              [val |-> IF Len(value) > 0 THEN value ELSE stripped,
               log |-> <<Entry("Sanitized SAS token", "debug")>>]
          Stripped(stripped) == Decoded(stripped, HtmlDecode(stripped))
      IN  Stripped(StripQuotes(Trim(token.s)))

\* appendSasToken keeping the leading '?' of the token.
appendSasTokenKeepsQuestionMark(url, sasToken) ==
    IF Len(sasToken) = 0 THEN [val |-> url, log |-> <<>>]
    ELSE
      LET sep == IF Includes(url, QMark) THEN Amp ELSE QMark
      IN  [val |-> url \o sep \o sasToken,
           log |-> <<Entry("Appended SAS token to URL", "system")>>]

\* appendSasToken joining with '?' whatever the url holds.
appendSasTokenAlwaysQuestionMark(url, sasToken) ==
    IF Len(sasToken) = 0 THEN [val |-> url, log |-> <<>>]
    ELSE
      LET token == IF StartsWith(sasToken, QMark)
                   THEN SliceFrom(sasToken, 1) ELSE sasToken
      IN  [val |-> url \o QMark \o token,
           log |-> <<Entry("Appended SAS token to URL", "system")>>]

\* appendSasToken(url, sasToken) for strings.
appendSasToken(url, sasToken) ==
    IF Len(sasToken) = 0 THEN [val |-> url, log |-> <<>>]
    ELSE
      LET token == IF StartsWith(sasToken, QMark)
                   THEN SliceFrom(sasToken, 1) ELSE sasToken
          sep == IF Includes(url, QMark) THEN Amp ELSE QMark
      IN  [val |-> url \o sep \o token,
           log |-> <<Entry("Appended SAS token to URL", "system")>>]

----------------------------------------------------------------------------
(* JavaScript values passed as the encoded reference                       *)

JsString(s) == [t |-> "string", s |-> s, n |-> 0]
JsNumber(k) == [t |-> "number", s |-> <<>>, n |-> k]

\* !v
Falsy(v) ==
    \/ v.t \in {"null", "undefined"}
    \/ v.t = "string" /\ Len(v.s) = 0
    \/ v.t = "number" /\ v.n = 0

\* String(v), as string concatenation and template literals apply it (the
\* numbers of this model have one digit).
JsToString(v) ==
    IF v.t = "string" THEN v.s
    ELSE IF v.t = "number" THEN <<Ord("0") + v.n>>
    ELSE IF v.t = "null" THEN Str(<<"n", "u", "l", "l">>)
    ELSE Str(<<"u", "n", "d", "e", "f", "i", "n", "e", "d">>)

----------------------------------------------------------------------------
(* createDownloadLink: window.urlDecoder and DynamicContainer              *)

\* The error property of a result: null or a message.
NoError == [null |-> TRUE, msg |-> ""]
Error(m) == [null |-> FALSE, msg |-> m]

\* Message of the TypeError raised by b64.trim() on a value that is not a
\* string.
TrimTypeError == "b64.trim is not a function"

ApiDownload ==
    Str(<<"/", "a", "p", "i", "/", "d", "o", "w", "n", "l", "o", "a", "d", "/">>)
ApiView == Str(<<"/", "a", "p", "i", "/", "v", "i", "e", "w", "/">>)

\* The html of a result: which of the templates it is (by the colour of its
\* box), the fixed note of the template, and the text interpolated at each
\* place of the template (null where the template has no such place).
Html(box, note) ==
    [box |-> box, note |-> note, message |-> "",
     base64Input |-> Null, rawDecoded |-> Null, cleanedUrl |-> Null,
     viewHref |-> Null, href |-> Null, dataDlUrl |-> Null]

\* decodeAndCleanUrl called with any value: a value that is not a string and
\* not falsy has no trim method, so the call inside the try block throws, and
\* so does the one in its catch block, which leaves the function.
decodeAndCleanUrlCall(v) ==
    IF Falsy(v) THEN
        [threw |-> FALSE, message |-> "", raw |-> Null, cleaned |-> Null,
         log |-> <<>>]
    ELSE IF v.t # "string" THEN
        [threw |-> TRUE, message |-> TrimTypeError, raw |-> Null,
         cleaned |-> Null,
         log |-> <<Entry("decodeAndCleanUrl input", "debug")>>]
    ELSE
        LET Returns(d) ==
                [threw |-> FALSE, message |-> "", raw |-> d.raw,
                 cleaned |-> d.cleaned, log |-> d.log]
        IN  Returns(decodeAndCleanUrl(v.s))

\* DownloadLink appending the token as configured, not the sanitised one.
DownloadLinkRawToken(cleaned, sasTokenRaw) ==
    LET Appended(tok, link) ==
            [val |-> link.val,
             log |-> tok.log \o <<Entry("Using SAS token", "system")>>
                     \o link.log
                     \o <<Entry("Created download link", "system")>>]
        Sanitized(tok) == Appended(tok, appendSasToken(cleaned, sasTokenRaw.s))
    IN  Sanitized(sanitizeSasToken(sasTokenRaw))

\* const downloadLink: the configured token is sanitised and appended to the
\* cleaned URL.
DownloadLink(cleaned, sasTokenRaw) ==
    LET Appended(tok, link) ==
            [val |-> link.val,
             log |-> tok.log \o <<Entry("Using SAS token", "system")>>
                     \o link.log
                     \o <<Entry("Created download link", "system")>>]
        Sanitized(tok) == Appended(tok, appendSasToken(cleaned, tok.val))
    IN  Sanitized(sanitizeSasToken(sasTokenRaw))

\* The body of the try block of urlDecoder.createDownloadLink: the result it
\* returns, or the exception that leaves it.  steps lists the functions of
\* the pipeline that were called.
ResolveLink(base64Url, showDetails, sasTokenRaw) ==
    LET Linked(d, link) ==
            [threw |-> FALSE, message |-> "",
             html |-> [Html("green", "Source Document Available")
                       EXCEPT !.base64Input =
                                  IF showDetails
                                  THEN Some(JsToString(base64Url)) ELSE Null,
                              !.rawDecoded =
                                  IF ~showDetails THEN Null
                                  ELSE IF d.raw.null \/ Len(d.raw.s) = 0
                                  THEN Some(Str(<<"(", "f", "a", "i", "l", "e",
                                                      "d", ")">>))
                                  ELSE d.raw,
                              !.cleanedUrl =
                                  IF showDetails THEN d.cleaned ELSE Null,
                              !.href = Some(link.val),
                              !.dataDlUrl = Some(link.val)],
             success |-> TRUE,
             error |-> NoError,
             log |-> d.log \o <<Entry("Decoded Base64 URL", "system")>>
                     \o link.log,
             steps |-> <<"decodeAndCleanUrl", "sanitizeSasToken",
                         "appendSasToken">>]
        Decoded(d) ==
            IF d.threw THEN
                [threw |-> TRUE, message |-> d.message,
                 html |-> Html("none", ""),
                 success |-> FALSE, error |-> NoError, log |-> d.log,
                 steps |-> <<"decodeAndCleanUrl">>]
            ELSE IF d.cleaned.null \/ Len(d.cleaned.s) = 0 THEN
                [threw |-> FALSE, message |-> "",
                 html |-> [Html("yellow",
                                "Could not extract a valid PDF URL from the Base64 string.")
                           EXCEPT !.base64Input =
                                      IF showDetails
                                      THEN Some(JsToString(base64Url)) ELSE Null,
                                  !.rawDecoded =
                                      IF showDetails /\ ~d.raw.null
                                         /\ Len(d.raw.s) > 0
                                      THEN d.raw ELSE Null],
                 success |-> FALSE,
                 error |-> Error("Could not extract a valid PDF URL"),
                 log |-> d.log
                     \o <<Entry("Decoded Base64 URL", "system"),
                          Entry("Failed to extract valid PDF URL from Base64 string",
                                "warning")>>,
                 steps |-> <<"decodeAndCleanUrl">>]
            ELSE Linked(d, DownloadLink(d.cleaned.s, sasTokenRaw))
    IN  Decoded(decodeAndCleanUrlCall(base64Url))

\* The catch block of urlDecoder.createDownloadLink: an exception leaving
\* the try block becomes a result.
Caught(r) ==
    IF r.threw THEN
        [threw |-> FALSE, message |-> "",
         html |-> [Html("red", "Failed to decode Base64 URL: ")
                   EXCEPT !.message = r.message],
         success |-> FALSE, error |-> Error(r.message),
         log |-> r.log \o <<Entry("Error in createDownloadLink", "error")>>,
         steps |-> r.steps]
    ELSE r

\* createDownloadLink without the test for a missing reference.
createDownloadLinkNoGuard(base64Url, showDetails, sasTokenRaw) ==
    Caught(ResolveLink(base64Url, showDetails, sasTokenRaw))

\* createDownloadLink without its try/catch.
createDownloadLinkNoCatch(base64Url, showDetails, sasTokenRaw) ==
    IF Falsy(base64Url) THEN
        [threw |-> FALSE, message |-> "",
         html |-> Html("red", "No Base64 URL provided."),
         success |-> FALSE, error |-> Error("No Base64 URL provided"),
         log |-> <<>>, steps |-> <<>>]
    ELSE ResolveLink(base64Url, showDetails, sasTokenRaw)

\* urlDecoder.createDownloadLink(base64Url, showDetails), reading the token
\* from window.APP_CONFIG.sasToken.
createDownloadLink(base64Url, showDetails, sasTokenRaw) ==
    IF Falsy(base64Url) THEN
        [threw |-> FALSE, message |-> "",
         html |-> Html("red", "No Base64 URL provided."),
         success |-> FALSE, error |-> Error("No Base64 URL provided"),
         log |-> <<>>, steps |-> <<>>]
    ELSE Caught(ResolveLink(base64Url, showDetails, sasTokenRaw))

\* DynamicContainer.createDownloadLink with the view link on the download
\* path.
DynamicContainerCreateDownloadLinkOnePath(base64Url) ==
    IF Falsy(base64Url) THEN
        [threw |-> FALSE, message |-> "",
         html |-> Html("red", "No Base64 URL provided."),
         success |-> FALSE, error |-> Error("No Base64 URL provided"),
         log |-> <<>>, steps |-> <<>>]
    ELSE
        LET downloadLink == ApiDownload \o JsToString(base64Url)
        IN  [threw |-> FALSE, message |-> "",
             html |-> [Html("green", "Source Document Available")
                       EXCEPT !.viewHref = Some(downloadLink),
                              !.href = Some(downloadLink),
                              !.dataDlUrl = Some(downloadLink)],
             success |-> TRUE, error |-> NoError,
             log |-> <<>>, steps |-> <<>>]

\* DynamicContainer.createDownloadLink(base64Url)
DynamicContainerCreateDownloadLink(base64Url) ==
    IF Falsy(base64Url) THEN
        [threw |-> FALSE, message |-> "",
         html |-> Html("red", "No Base64 URL provided."),
         success |-> FALSE, error |-> Error("No Base64 URL provided"),
         log |-> <<>>, steps |-> <<>>]
    ELSE
        LET downloadLink == ApiDownload \o JsToString(base64Url)
            viewLink == ApiView \o JsToString(base64Url)
        IN  [threw |-> FALSE, message |-> "",
             html |-> [Html("green", "Source Document Available")
                       EXCEPT !.viewHref = Some(viewLink),
                              !.href = Some(downloadLink),
                              !.dataDlUrl = Some(downloadLink)],
             success |-> TRUE, error |-> NoError,
             log |-> <<>>, steps |-> <<>>]

----------------------------------------------------------------------------
(* window.debugLogger                                                      *)

\* DebugLogger.maxLogs
maxLogs == 100

\* The logger a page has: none (debug_logger.js not loaded), or the
\* DebugLogger instance with its enabled flag and its logs array.
NoLogger == [present |-> FALSE, enabled |-> FALSE, logs |-> <<>>]
NewLogger == [present |-> TRUE, enabled |-> TRUE, logs |-> <<>>]

\* DebugLogger.log called once per entry: nothing when disabled, otherwise
\* the entry is pushed and the oldest is shifted out beyond maxLogs.
RECURSIVE LogAll(_, _)
LogAll(logger, entries) ==
    IF Len(entries) = 0 \/ ~logger.present \/ ~logger.enabled THEN logger
    ELSE
      LET pushed == Append(logger.logs, Head(entries))
          kept == IF Len(pushed) > maxLogs THEN Tail(pushed) ELSE pushed
      IN  LogAll([logger EXCEPT !.logs = kept], Tail(entries))

----------------------------------------------------------------------------
(* window.smartScroll                                                      *)

\* px from bottom to consider "at bottom"
THRESHOLD == 80

\* An element: its scrollHeight, scrollTop and clientHeight, in px.
Element(sh, st, ch) == [scrollHeight |-> sh, scrollTop |-> st, clientHeight |-> ch]

\* The largest scrollTop the element can have; an assignment beyond it is
\* clamped to it.
MaxScrollTop(el) ==
    IF el.scrollHeight > el.clientHeight
    THEN el.scrollHeight - el.clientHeight ELSE 0

\* el.scrollTop = v
SetScrollTop(el, v) ==
    [el EXCEPT !.scrollTop = IF v > MaxScrollTop(el) THEN MaxScrollTop(el)
                             ELSE IF v < 0 THEN 0 ELSE v]

isNearBottom(el) ==
    (el.scrollHeight - el.scrollTop - el.clientHeight) < THRESHOLD

\* smartScrollToBottom scrolling whatever the flag says.
smartScrollToBottomAlways(el, userScrolledUp) ==
    SetScrollTop(el, el.scrollHeight)

\* smartScrollToBottom(el): the element after the call.
smartScrollToBottom(el, userScrolledUp) ==
    IF ~userScrolledUp \/ isNearBottom(el)
    THEN SetScrollTop(el, el.scrollHeight)
    ELSE el

\* forceScrollToBottom(el): the element after the call (the flag is cleared
\* by the caller of this operator).
forceScrollToBottom(el) == SetScrollTop(el, el.scrollHeight)

----------------------------------------------------------------------------
(* parseInt and parseFloat                                                 *)

\* NaN; a number v is [nan |-> FALSE, val |-> v].
NaN == [nan |-> TRUE, val |-> 0]

\* Length of the run of decimal digits of s that starts at position from
\* (1-based).
DigitRun(s, from) ==
    CHOOSE n \in 0..Len(s) :
      /\ from + n - 1 <= Len(s)
      /\ \A k \in 0..(n - 1) : s[from + k] \in 48..57
      /\ from + n > Len(s) \/ s[from + n] \notin 48..57

\* The number a run of decimal digits denotes.
RECURSIVE DecimalValue(_)
DecimalValue(d) ==
    IF Len(d) = 0 THEN 0
    ELSE DecimalValue(DropLast(d)) * 10 + (d[Len(d)] - 48)

\* The position after the sign character s may start with.
AfterSign(s) == IF Len(s) > 0 /\ s[1] \in {Ord("-"), Ord("+")} THEN 2 ELSE 1

\* parseInt(s) of a trimmed string without a 0x prefix: the longest prefix
\* that is an optionally signed run of digits, NaN when there is no digit.
parseInt(s) ==
    LET Digits(from, n) ==
            IF n = 0 THEN NaN
            ELSE [nan |-> FALSE,
                  val |-> (IF s[1] = Ord("-") THEN -1 ELSE 1)
                          * DecimalValue(SubSeq(s, from, from + n - 1))]
    IN  Digits(AfterSign(s), DigitRun(s, AfterSign(s)))

\* parseFloat(s) of a trimmed string without an exponent, in tenths: the
\* longest prefix that is an optionally signed decimal numeral, NaN when it
\* has no digit.  The numerals of this model have at most one digit after
\* the point.
parseFloat(s) ==
    LET Fraction(from, n, m) ==
            IF n = 0 /\ m = 0 THEN NaN
            ELSE [nan |-> FALSE,
                  val |-> (IF s[1] = Ord("-") THEN -1 ELSE 1)
                          * (DecimalValue(SubSeq(s, from, from + n - 1)) * 10
                             + IF m > 0 THEN s[from + n + 1] - 48 ELSE 0)]
        Whole(from, n) ==
            Fraction(from, n,
                     IF from + n <= Len(s) /\ s[from + n] = Ord(".")
                     THEN DigitRun(s, from + n + 1) ELSE 0)
    IN  Whole(AfterSign(s), DigitRun(s, AfterSign(s)))

----------------------------------------------------------------------------
(* Unified dev-eval wizard: createStateManager                             *)

\* MODES, and activeMode = null.
MODES == {"developer", "batch", "compare"}
NoMode == "null"

\* parameters as createStateManager sets them; temperature and top_p are
\* held in tenths.
DefaultBatch ==
    [temperature |-> 3, top_p |-> 10, max_tokens |-> 1000, runs |-> 1]

\* The variables of the closure of createStateManager.
NewStateManager ==
    [activeMode |-> NoMode, currentStep |-> "idle", query |-> <<>>,
     prompt1 |-> <<>>, prompt2 |-> <<>>, 
     parameters |-> [batch1 |-> DefaultBatch, batch2 |-> DefaultBatch]]

\* activateMode(mode) and deactivateMode()
activateMode(st, mode) ==
    [st EXCEPT !.activeMode = mode, !.currentStep = "query"]
deactivateMode(st) ==
    [st EXCEPT !.activeMode = NoMode, !.currentStep = "idle"]

\* ui.toggleMode(mode, button)
toggleMode(st, mode) ==
    IF st.activeMode = mode THEN deactivateMode(st)
    ELSE activateMode(deactivateMode(st), mode)

\* What handleUserInput leaves: the state and whether processEvaluation was
\* called.
Stay(st) == [state |-> st, evaluate |-> FALSE]
Goto(st, step) ==
    [state |-> [st EXCEPT !.currentStep = step], evaluate |-> FALSE]
Evaluate(st) ==
    [state |-> [st EXCEPT !.currentStep = "processing"], evaluate |-> TRUE]

\* One of the numeric cases of handleUserInput up to the end of its
\* validation: the empty input keeps the stored value, a value that parses
\* to NaN or outside lo..hi makes the case return (rejected), any other
\* value is stored.
NumericCase(st, input, parsed, lo, hi, batch, name) ==
    IF Len(input) = 0 THEN [rejected |-> FALSE, state |-> st]
    ELSE IF parsed.nan \/ parsed.val < lo \/ parsed.val > hi
    THEN [rejected |-> TRUE, state |-> st]
    ELSE [rejected |-> FALSE,
          state |-> [st EXCEPT !.parameters[batch][name] = parsed.val]]

\* The end of a numeric case v: the next step, or processEvaluation.
Advance(v, step) == IF v.rejected THEN Stay(v.state) ELSE Goto(v.state, step)
Finish(v) == IF v.rejected THEN Stay(v.state) ELSE Evaluate(v.state)

\* handleUserInput asking for the number of runs in compare mode only.
handleUserInputBatchAsDeveloper(st, input) ==
    LET step == st.currentStep
    IN  IF step = "query" THEN
            IF Len(input) = 0 THEN Stay(st)
            ELSE Goto([st EXCEPT !.query = input], "prompt_1")
        ELSE IF step = "prompt_1" THEN
            Goto([st EXCEPT !.prompt1 = input], "temperature_1")
        ELSE IF step = "temperature_1" THEN
            Advance(NumericCase(st, input, parseFloat(input), 0, 20,
                        "batch1", "temperature"),
                    "top_p_1")
        ELSE IF step = "top_p_1" THEN
            Advance(NumericCase(st, input, parseFloat(input), 0, 10,
                        "batch1", "top_p"),
                    "max_tokens_1")
        ELSE IF step = "max_tokens_1" THEN
            IF st.activeMode # "compare"
            THEN Finish(NumericCase(st, input, parseInt(input), 1, 4000,
                        "batch1", "max_tokens"))
            ELSE Advance(NumericCase(st, input, parseInt(input), 1, 4000,
                        "batch1", "max_tokens"),
                         "runs_1")
        ELSE IF step = "runs_1" THEN
            IF st.activeMode = "batch"
            THEN Finish(NumericCase(st, input, parseInt(input), 1, 20,
                        "batch1", "runs"))
            ELSE Advance(NumericCase(st, input, parseInt(input), 1, 20,
                        "batch1", "runs"),
                         "prompt_2")
        ELSE IF step = "prompt_2" THEN
            Goto([st EXCEPT !.prompt2 = input], "temperature_2")
        ELSE IF step = "temperature_2" THEN
            Advance(NumericCase(st, input, parseFloat(input), 0, 20,
                        "batch2", "temperature"),
                    "top_p_2")
        ELSE IF step = "top_p_2" THEN
            Advance(NumericCase(st, input, parseFloat(input), 0, 10,
                        "batch2", "top_p"),
                    "max_tokens_2")
        ELSE IF step = "max_tokens_2" THEN
            Advance(NumericCase(st, input, parseInt(input), 1, 4000,
                        "batch2", "max_tokens"),
                    "runs_2")
        ELSE IF step = "runs_2" THEN
            Finish(NumericCase(st, input, parseInt(input), 1, 20,
                        "batch2", "runs"))
        ELSE Stay(st)

\* handleUserInput(input) in the state st: the switch on currentStep.  The
\* default case (idle, processing) changes nothing.
handleUserInput(st, input) ==
    LET step == st.currentStep
    IN  IF step = "query" THEN
            IF Len(input) = 0 THEN Stay(st)
            ELSE Goto([st EXCEPT !.query = input], "prompt_1")
        ELSE IF step = "prompt_1" THEN
            Goto([st EXCEPT !.prompt1 = input], "temperature_1")
        ELSE IF step = "temperature_1" THEN
            Advance(NumericCase(st, input, parseFloat(input), 0, 20,
                        "batch1", "temperature"),
                    "top_p_1")
        ELSE IF step = "top_p_1" THEN
            Advance(NumericCase(st, input, parseFloat(input), 0, 10,
                        "batch1", "top_p"),
                    "max_tokens_1")
        ELSE IF step = "max_tokens_1" THEN
            IF st.activeMode = "developer"
            THEN Finish(NumericCase(st, input, parseInt(input), 1, 4000,
                        "batch1", "max_tokens"))
            ELSE Advance(NumericCase(st, input, parseInt(input), 1, 4000,
                        "batch1", "max_tokens"),
                         "runs_1")
        ELSE IF step = "runs_1" THEN
            IF st.activeMode = "batch"
            THEN Finish(NumericCase(st, input, parseInt(input), 1, 20,
                        "batch1", "runs"))
            ELSE Advance(NumericCase(st, input, parseInt(input), 1, 20,
                        "batch1", "runs"),
                         "prompt_2")
        ELSE IF step = "prompt_2" THEN
            Goto([st EXCEPT !.prompt2 = input], "temperature_2")
        ELSE IF step = "temperature_2" THEN
            Advance(NumericCase(st, input, parseFloat(input), 0, 20,
                        "batch2", "temperature"),
                    "top_p_2")
        ELSE IF step = "top_p_2" THEN
            Advance(NumericCase(st, input, parseFloat(input), 0, 10,
                        "batch2", "top_p"),
                    "max_tokens_2")
        ELSE IF step = "max_tokens_2" THEN
            Advance(NumericCase(st, input, parseInt(input), 1, 4000,
                        "batch2", "max_tokens"),
                    "runs_2")
        ELSE IF step = "runs_2" THEN
            Finish(NumericCase(st, input, parseInt(input), 1, 20,
                        "batch2", "runs"))
        ELSE Stay(st)

----------------------------------------------------------------------------
(* DevEvalChat                                                             *)

\* currentState and params of the DevEvalChat object; temperature and top_p
\* are held in tenths.
NewDevEvalChat ==
    [currentState |-> "idle",
     params |-> [query |-> <<>>, prompt |-> <<>>, temperature |-> 3,
                 top_p |-> 10, max_tokens |-> 1000]]

\* DevEvalChat.processEvaluation up to the call of fetch: currentState is
\* set to PROCESSING and, before the request is made, back to QUERY.
DevEvalChatProcessEvaluation(c) ==
    LET Reset(d) == [d EXCEPT !.currentState = "query"]
    IN  [state |-> Reset([c EXCEPT !.currentState = "processing"]),
         evaluate |-> TRUE]

\* One of the numeric cases of DevEvalChat.handleUserInput up to the end of
\* its validation: the empty input stands for the default, a value that
\* parses to NaN or outside lo..hi makes the case return (rejected), the
\* value is stored.
DevEvalChatNumericCase(c, userInput, parsed, lo, hi, default, name) ==
    IF Len(userInput) = 0
    THEN [rejected |-> FALSE, state |-> [c EXCEPT !.params[name] = default]]
    ELSE IF parsed.nan \/ parsed.val < lo \/ parsed.val > hi
    THEN [rejected |-> TRUE, state |-> c]
    ELSE [rejected |-> FALSE,
          state |-> [c EXCEPT !.params[name] = parsed.val]]

\* DevEvalChat.handleUserInput(userInput) in the state c.
DevEvalChatHandleUserInput(c, userInput) ==
    LET s == c.currentState
        To(d, next) ==
            [state |-> [d EXCEPT !.currentState = next], evaluate |-> FALSE]
        Then(v, next) == IF v.rejected THEN Stay(c) ELSE To(v.state, next)
        Run(v) ==
            IF v.rejected THEN Stay(c)
            ELSE DevEvalChatProcessEvaluation(v.state)
    IN  IF s \in {"idle", "query"} THEN
            To([c EXCEPT !.params.query = userInput], "prompt")
        ELSE IF s = "prompt" THEN
            To([c EXCEPT !.params.prompt = userInput], "temperature")
        ELSE IF s = "temperature" THEN
            Then(DevEvalChatNumericCase(c, userInput, parseFloat(userInput),
                                        0, 20, 3, "temperature"), "top_p")
        ELSE IF s = "top_p" THEN
            Then(DevEvalChatNumericCase(c, userInput, parseFloat(userInput),
                                        0, 10, 10, "top_p"), "max_tokens")
        ELSE IF s = "max_tokens" THEN
            Run(DevEvalChatNumericCase(c, userInput, parseInt(userInput),
                                       1, 4000, 1000, "max_tokens"))
        ELSE Stay(c)

\* DevEvalChat.handleSubmit() when the input box holds typed: a blank input
\* is dropped, any other is trimmed and handed to handleUserInput.
DevEvalChatHandleSubmit(c, typed) ==
    IF Len(Trim(typed)) = 0 THEN Stay(c)
    ELSE DevEvalChatHandleUserInput(c, Trim(typed))

----------------------------------------------------------------------------
(* Feedback widget                                                         *)

FEEDBACK_CONFIG ==
    [negativeReasons |->
         <<"Incorrect", "Incomplete", "Data Source Quality", "Irrelevant",
           "Hard to Understand", "Other Issue">>,
     positiveReasons |->
         <<"No time saving", "1 to 15 mins", "16 to 30 mins", "31 to 60 mins",
           "> 60 mins", "Not specified">>]

\* handleSubmit that sends negative feedback without a reason as well.
FeedbackHandleSubmitNoReasonCheck(w, submitted) ==
    LET RECURSIVE Values(_, _)
        Values(list, i) ==
            IF i > Len(list) THEN <<>>
            ELSE (IF i \in w.checked THEN <<list[i]>> ELSE <<>>)
                 \o Values(list, i + 1)
        Positive(checked) ==
            [feedback_type |-> "positive",
             feedback_tags |-> <<"helpful">> \o
                 IF Len(checked) = 0 THEN <<"Not specified">> ELSE checked]
        Negative(checked) ==
            [feedback_type |-> "negative", feedback_tags |-> checked]
    IN  IF submitted THEN [feedback_type |-> "none", feedback_tags |-> <<>>]
        ELSE IF w.selectedType = "none"
        THEN [feedback_type |-> "none", feedback_tags |-> <<>>]
        ELSE IF w.selectedType = "positive"
        THEN Positive(Values(FEEDBACK_CONFIG.positiveReasons, 1))
        ELSE Negative(Values(FEEDBACK_CONFIG.negativeReasons, 1))

\* handleSubmit(messageId, queryID) for the widget w, where submitted says
\* whether feedbackSubmissions has messageId: the feedbackData handed to
\* submitFeedback (its type and tags), with type "none" when the function
\* returns before.  w.checked holds the positions of the checked reasons.
FeedbackHandleSubmit(w, submitted) ==
    LET RECURSIVE Values(_, _)
        Values(list, i) ==
            IF i > Len(list) THEN <<>>
            ELSE (IF i \in w.checked THEN <<list[i]>> ELSE <<>>)
                 \o Values(list, i + 1)
        Positive(checked) ==
            [feedback_type |-> "positive",
             feedback_tags |-> <<"helpful">> \o
                 IF Len(checked) = 0 THEN <<"Not specified">> ELSE checked]
        Negative(checked) ==
            IF Len(checked) = 0
            THEN [feedback_type |-> "none", feedback_tags |-> <<>>]
            ELSE [feedback_type |-> "negative", feedback_tags |-> checked]
    IN  IF submitted THEN [feedback_type |-> "none", feedback_tags |-> <<>>]
        ELSE IF w.selectedType = "none"
        THEN [feedback_type |-> "none", feedback_tags |-> <<>>]
        ELSE IF w.selectedType = "positive"
        THEN Positive(Values(FEEDBACK_CONFIG.positiveReasons, 1))
        ELSE Negative(Values(FEEDBACK_CONFIG.negativeReasons, 1))

----------------------------------------------------------------------------
(* Inputs                                                                  *)

\* Longest run of path segments between the scheme and the final extension.
MaxMid == 2
\* Most characters outside the Base64 alphabet appended to an encoding.
MaxGarbage == 3
\* Most stray Base64-alphabet characters appended to an encoding.
MaxExtraEncoded == 2
\* Most pieces a SAS token is put together from.
MaxTokenChunks == 3
\* Most pieces a URL handed to appendSasToken is put together from.
MaxUrlChunks == 3

SeqsUpTo(S, n) == UNION {[1..k -> S] : k \in 0..n}

RECURSIVE Flatten(_)
Flatten(ss) == IF Len(ss) = 0 THEN <<>> ELSE Head(ss) \o Flatten(Tail(ss))

\* URLs as base64_url_examples.js encodes them: a scheme, a path and one of
\* the three extensions; the path may itself hold '.pdf'.
ValidUrls ==
    {p \o Flatten(m) \o e :
        p \in Prefixes, m \in SeqsUpTo({Str(<<"a">>), DotPdf}, MaxMid), e \in Extensions}

\* URLs followed by a stray character, as in the '.pdf%' and '.pdf5' examples.
GarbledUrls == {u \o g : u \in ValidUrls, g \in {Str(<<"%">>), Str(<<"5">>)}}

\* Other payloads: nothing, text that is no URL, another scheme, another
\* extension, upper case, a URL whose encoding holds '/' (for the URL-safe
\* form), a URL with a two-byte UTF-8 character, bytes that are not UTF-8,
\* a URL with another extension after '.pdf', a URL followed by markup.
OtherPayloads ==
    {<<>>,
     Str(<<"h", "e", "l", "l", "o">>),
     Str(<<"f", "t", "p", ":", "/", "/", "a", ".", "p", "d", "f">>),
     Str(<<"h", "t", "t", "p", ":", "/", "/", "a", ".", "d", "o", "c">>),
     Str(<<"H", "T", "T", "P", ":", "/", "/", "A", ".", "P", "D", "F">>),
     Str(<<"h", "t", "t", "p", "s", ":", "/", "/", "a", ".", "T", "x", "t", "5">>),
     Str(<<"h", "t", "t", "p", ":", "/", "/", "a", "?", "?", "?", ".", "c", "s", "v">>),
     Str(<<"h", "t", "t", "p", ":", "/", "/">>) \o <<195, 169>> \o DotPdf,
     <<255, 254>>,
     Str(<<"h", "t", "t", "p", ":", "/", "/", "a", ".", "p", "d", "f", ".", "d", "o", "c">>),
     Str(<<"h", "t", "t", "p", ":", "/", "/", "a", ".", "c", "s", "v", "dquote", "<", ">">>)}

\* What happened to the encoding on its way: nothing ("none"), "!!??"
\* inserted after its first ten characters ("insert"), or '+' and '/' written
\* '-' and '_' ("urlsafe").
Garble(b64, g) ==
    IF g = "insert" THEN
        Substring0(b64, 10) \o Str(<<"!", "!", "?", "?">>) \o SliceFrom(b64, 10)
    ELSE IF g = "urlsafe" THEN
        [i \in 1..Len(b64) |->
            IF b64[i] = Ord("+") THEN Ord("-")
            ELSE IF b64[i] = Ord("/") THEN Ord("_")
            ELSE b64[i]]
    ELSE b64

\* The encoded reference made from a payload.
Reference(p, g, x) == JsString(Garble(Btoa(p), g) \o x)

\* Longest reference that is the Base64 of nothing: a short string of a
\* letter, the padding character and a character of the URL-safe alphabet.
MaxRawLen == 3

\* <<payload, garble, extra>> handed to the two decoding functions: the
\* extra characters after the encoding of a URL are outside the Base64
\* alphabet, or stray characters of it.
DecodeInputs ==
    (ValidUrls \X {"none"}
        \X (SeqsUpTo({Ord("!"), Ord(" ")}, MaxGarbage)
            \cup SeqsUpTo({Ord("0"), Ord("="), Ord("C"), Ord("g")},
                          MaxExtraEncoded)))
    \cup ((GarbledUrls \cup OtherPayloads) \X {"none"}
          \X {<<>>, Str(<<"0">>), Str(<<"!">>)})
    \cup (OtherPayloads \X {"insert", "urlsafe"} \X {<<>>})
    \cup {<<KnownBadUrl, "none", Str(<<"0">>)>>}
    \cup ({<<>>} \X {"none"}
          \X (SeqsUpTo({Ord("a"), Ord("="), Ord("-")}, MaxRawLen) \ {<<>>}))

\* <<payload, garble, extra>> handed to createDownloadLink.
LinkInputs ==
    ((ValidUrls \cup GarbledUrls \cup OtherPayloads) \X {"none"} \X {<<>>})
    \cup (OtherPayloads \X {"insert", "urlsafe"} \X {<<>>})
    \cup {<<KnownBadUrl, "none", Str(<<"0">>)>>}
    \cup {<<<<>>, "none", Str(<<"<">>)>>}

\* References that are not strings.
NonStrings ==
    {[t |-> "null", s |-> <<>>, n |-> 0],
     [t |-> "undefined", s |-> <<>>, n |-> 0], JsNumber(0), JsNumber(7)}

----------------------------------------------------------------------------
(* State                                                                   *)

VARIABLES
    fn,           \* the function the page calls
    pc,           \* "call" before the call, "done" after it
    payload,      \* the string the producer encoded
    garble,       \* what happened to the encoding
    extra,        \* the characters appended to the encoding
    base64Url,    \* the encoded reference passed to the function
    showDetails,  \* second argument of urlDecoder.createDownloadLink
    url,          \* first argument of appendSasToken
    sasToken,     \* window.APP_CONFIG.sasToken, or the token argument
    debugLogger,  \* window.debugLogger
    ret,          \* what the call returned
    prev,         \* what the call before it returned
    el,              \* the chat container smartScroll works on
    userScrolledUp,  \* smartScroll's flag
    listening,       \* smartScroll.init attached its scroll listener
    scrollPending,   \* a scroll event of el waits to be dispatched
    lastStep,        \* the step taken last
    state,           \* the closure of the wizard's createStateManager
    fetches,         \* number of evaluation requests issued so far
    pending,         \* requests whose response has not arrived
    chat,            \* currentState and params of DevEvalChat
    isDeveloperMode, \* window.isDeveloperMode
    chatFetches,     \* number of /api/dev_eval requests DevEvalChat issued
    chatPending,     \* those whose response has not arrived
    localStorage,        \* the items 'useDynamicCitations' and 'theme'
    loaded,              \* the scripts of the page have run
    useDynamicCitations, \* the citation toggle's state
    lastChosen,          \* the mode the last toggleCitationMode call chose
    prefersDark,         \* (prefers-color-scheme: dark) matches
    dark,                \* the html element has the class 'dark'
    form,                \* the three fields of the automation form
    formDisabled,        \* setFormState(true) was the last setFormState
    status,              \* what statusDiv shows
    automationRequests,  \* number of /run_automation requests sent
    messages,            \* the feedback widgets, by number of the message
    feedbackSubmissions  \* the set feedbackSubmissions

urlVars == <<fn, pc, payload, garble, extra, base64Url, showDetails, url,
             sasToken, debugLogger, ret, prev>>
scrollVars == <<el, userScrolledUp, listening, scrollPending>>
wizardVars == <<state, fetches, pending>>

chatVars == <<chat, isDeveloperMode, chatFetches, chatPending>>

pageVars == <<localStorage, loaded, useDynamicCitations, lastChosen,
              prefersDark, dark, form, formDisabled, status,
              automationRequests>>
feedbackVars == <<messages, feedbackSubmissions>>

vars == <<urlVars, scrollVars, wizardVars, chatVars, pageVars, feedbackVars,
          lastStep>>

NoResult == [none |-> TRUE]

\* The page before smartScroll.init: an empty container, nothing scrolled.
ScrollIdle ==
    /\ el = Element(0, 0, 0)
    /\ userScrolledUp = FALSE
    /\ listening = FALSE
    /\ scrollPending = FALSE

\* The page before the wizard is used.
WizardIdle ==
    /\ state = NewStateManager
    /\ fetches = 0
    /\ pending = 0

\* The page before its scripts have run, with nothing stored and an empty
\* automation form.
PageIdle ==
    /\ localStorage = [useDynamicCitations |-> "null", theme |-> "null"]
    /\ loaded = FALSE
    /\ useDynamicCitations = TRUE
    /\ lastChosen = "none"
    /\ prefersDark = FALSE
    /\ dark = FALSE
    /\ form = [initial_question |-> <<>>, follow_up_question |-> <<>>,
               repetitions |-> <<>>]
    /\ formDisabled = FALSE
    /\ status = "none"
    /\ automationRequests = 0

\* No bot message has a feedback widget yet.
FeedbackIdle ==
    /\ messages = <<>>
    /\ feedbackSubmissions = {}

\* The page before DevEvalChat is used.
ChatIdle ==
    /\ chat = NewDevEvalChat
    /\ isDeveloperMode = FALSE
    /\ chatFetches = 0
    /\ chatPending = 0

\* Nothing has been called yet.
Fresh ==
    /\ pc = "call"
    /\ ret = NoResult
    /\ prev = NoResult
    /\ debugLogger \in {NoLogger, NewLogger, [NewLogger EXCEPT !.enabled = FALSE]}
    /\ ScrollIdle
    /\ WizardIdle
    /\ ChatIdle
    /\ PageIdle
    /\ FeedbackIdle
    /\ lastStep = "none"

NoReference ==
    /\ payload = <<>>
    /\ garble = "none"
    /\ extra = <<>>
    /\ base64Url = JsString(<<>>)
    /\ showDetails = FALSE

InitDecode ==
    /\ Fresh
    /\ \/ /\ fn \in {"customBase64Decode", "decodeAndCleanUrl"}
          /\ \E in \in DecodeInputs :
               /\ payload = in[1]
               /\ garble = in[2]
               /\ extra = in[3]
               /\ base64Url = Reference(in[1], in[2], in[3])
       \/ /\ fn = "decodeAndCleanUrl"
          /\ payload = <<>>
          /\ garble = "none"
          /\ extra = <<>>
          /\ base64Url \in NonStrings
    /\ showDetails = FALSE
    /\ url = <<>>
    /\ sasToken = Null

InitToken ==
    /\ Fresh
    /\ NoReference
    /\ \/ /\ fn = "sanitizeSasToken"
          /\ url = <<>>
          \* Values of window.APP_CONFIG.sasToken (null: no token).
          /\ sasToken \in {Null} \cup
               {Some(Flatten(c)) :
                  c \in SeqsUpTo({Str(<<"a">>), DQuote, SQuote, Str(<<" ">>),
                                  QMark, Str(<<"&", "a", "m", "p", ";">>),
                                  Str(<<"a", "m", "p", ";">>),
                                  Str(<<"&", "q", "u", "o", "t", ";">>)},
                                 MaxTokenChunks)}
       \/ /\ fn = "appendSasToken"
          \* The two URLs of the documented examples and short ones with
          \* any number of '?'.
          /\ url \in
               {Flatten(c) : c \in SeqsUpTo({Str(<<"u">>), QMark}, MaxUrlChunks)}
               \cup {Str(<<"h", "t", "t", "p", "s", ":", "/", "/", "x", "/", "y",
                           ".", "p", "d", "f">>),
                     Str(<<"h", "t", "t", "p", "s", ":", "/", "/", "x", "/", "y",
                           ".", "p", "d", "f", "?", "a", "=", "1">>)}
          /\ sasToken \in
               {Null, Some(Str(<<"?", "t", "o", "k", "=", "1">>)),
                Some(Str(<<"t", "o", "k", "=", "1">>))}
               \cup {Some(Flatten(c)) :
                        c \in SeqsUpTo({Str(<<"t">>), QMark, Amp}, MaxTokenChunks)}

InitLink ==
    /\ Fresh
    /\ fn \in {"createDownloadLink", "DynamicContainer.createDownloadLink"}
    /\ \/ \E in \in LinkInputs :
            /\ payload = in[1]
            /\ garble = in[2]
            /\ extra = in[3]
            /\ base64Url = Reference(in[1], in[2], in[3])
       \/ /\ payload = <<>>
          /\ garble = "none"
          /\ extra = <<>>
          /\ base64Url \in NonStrings
    /\ showDetails \in IF fn = "createDownloadLink" THEN BOOLEAN ELSE {FALSE}
    /\ sasToken \in
         {Null,
          Some(Str(<<"s", "=", "1">>)),
          Some(Str(<<"?", "s", "=", "1">>)),
          Some(Str(<<"dquote", "s", "=", "1", "dquote">>)),
          Some(Str(<<" ", "s", "=", "1", "&", "a", "m", "p", ";", "t", "=", "2">>))}
    /\ url = <<>>

Init == InitDecode \/ InitToken \/ InitLink

----------------------------------------------------------------------------
(* Calls                                                                   *)

Return(r, entries) ==
    /\ pc' = "done"
    /\ prev' = ret
    /\ ret' = r
    /\ debugLogger' = LogAll(debugLogger, entries)
    /\ lastStep' = fn
    /\ UNCHANGED <<fn, payload, garble, extra, base64Url, showDetails, url,
                   sasToken>>
    /\ UNCHANGED <<scrollVars, wizardVars, chatVars, pageVars,
                 feedbackVars>>

\* The call returned r, having logged r.log.
ReturnLogged(r) == Return(r, r.log)

CallCustomBase64Decode ==
    /\ pc = "call"
    /\ fn = "customBase64Decode"
    /\ Return([val |-> customBase64Decode(base64Url.s)], <<>>)

CallDecodeAndCleanUrl ==
    /\ pc = "call"
    /\ fn = "decodeAndCleanUrl"
    /\ ReturnLogged(decodeAndCleanUrlCall(base64Url))

CallSanitizeSasToken ==
    /\ pc = "call"
    /\ fn = "sanitizeSasToken"
    /\ ReturnLogged(sanitizeSasToken(sasToken))

\* The sanitised token is sanitised once more.
CallSanitizeAgain ==
    /\ pc = "done"
    /\ fn = "sanitizeSasToken"
    /\ prev = NoResult
    /\ ReturnLogged(sanitizeSasToken(Some(ret.val)))

CallAppendSasToken ==
    /\ pc = "call"
    /\ fn = "appendSasToken"
    /\ ReturnLogged(appendSasToken(url, sasToken.s))

CallCreateDownloadLink ==
    /\ pc = "call"
    /\ fn = "createDownloadLink"
    /\ ReturnLogged(createDownloadLink(base64Url, showDetails, sasToken))

CallDynamicContainerCreateDownloadLink ==
    /\ pc = "call"
    /\ fn = "DynamicContainer.createDownloadLink"
    /\ ReturnLogged(DynamicContainerCreateDownloadLink(base64Url))

Next ==
    \/ CallCustomBase64Decode
    \/ CallDecodeAndCleanUrl
    \/ CallSanitizeSasToken
    \/ CallSanitizeAgain
    \/ CallAppendSasToken
    \/ CallCreateDownloadLink
    \/ CallDynamicContainerCreateDownloadLink

Spec == Init /\ [][Next]_vars

----------------------------------------------------------------------------
(* The chat container and smartScroll                                      *)

\* Most rows of content the container holds; a row is 40 px high and the
\* container shows three rows.
MaxRows == 8

\* No function of urlDecoder is called on this page.
UrlIdle ==
    /\ fn = "none"
    /\ pc = "idle"
    /\ NoReference
    /\ url = <<>>
    /\ sasToken = Null
    /\ debugLogger = NoLogger
    /\ ret = NoResult
    /\ prev = NoResult

InitScroll ==
    /\ UrlIdle
    /\ WizardIdle
    /\ ChatIdle
    /\ PageIdle
    /\ FeedbackIdle
    /\ \E rows \in 3..MaxRows : el = Element(40 * rows, 0, 120)
    /\ userScrolledUp = FALSE
    /\ listening = FALSE
    /\ scrollPending = FALSE
    /\ lastStep = "none"

\* The element becomes e; a change of scrollTop queues a scroll event.
Scrolled(e) ==
    /\ el' = e
    /\ scrollPending' = (scrollPending \/ e.scrollTop # el.scrollTop)

\* window.smartScroll.init(chatMessages)
InitSmartScroll ==
    /\ ~listening
    /\ listening' = TRUE
    /\ lastStep' = "init"
    /\ UNCHANGED <<el, userScrolledUp, scrollPending, urlVars, wizardVars, chatVars, pageVars,
                 feedbackVars>>

\* The user moves the scrollbar.
UserScrolls ==
    /\ \E k \in 0..MaxRows :
         /\ 40 * k <= MaxScrollTop(el)
         /\ 40 * k # el.scrollTop
         /\ Scrolled(SetScrollTop(el, 40 * k))
    /\ lastStep' = "user"
    /\ UNCHANGED <<userScrolledUp, listening, urlVars, wizardVars, chatVars, pageVars,
                 feedbackVars>>

\* Streaming adds rows of content to the container.
ContentAdded ==
    /\ \E k \in 1..3 :
         /\ el.scrollHeight + 40 * k <= 40 * MaxRows
         /\ el' = [el EXCEPT !.scrollHeight = @ + 40 * k]
    /\ lastStep' = "content"
    /\ UNCHANGED <<userScrolledUp, listening, scrollPending, urlVars, wizardVars, chatVars, pageVars,
                 feedbackVars>>

\* The queued scroll event is dispatched: the listener of initSmartScroll
\* runs when it is attached.
ScrollEvent ==
    /\ scrollPending
    /\ scrollPending' = FALSE
    /\ userScrolledUp' = IF listening THEN ~isNearBottom(el) ELSE userScrolledUp
    /\ lastStep' = "scroll"
    /\ UNCHANGED <<el, listening, urlVars, wizardVars, chatVars, pageVars,
                 feedbackVars>>

\* window.smartScroll.smart(chatMessages)
SmartScroll ==
    /\ Scrolled(smartScrollToBottom(el, userScrolledUp))
    /\ lastStep' = "smart"
    /\ UNCHANGED <<userScrolledUp, listening, urlVars, wizardVars, chatVars, pageVars,
                 feedbackVars>>

\* window.smartScroll.force(chatMessages)
ForceScroll ==
    /\ userScrolledUp' = FALSE
    /\ Scrolled(forceScrollToBottom(el))
    /\ lastStep' = "force"
    /\ UNCHANGED <<listening, urlVars, wizardVars, chatVars, pageVars,
                 feedbackVars>>

NextScroll ==
    \/ InitSmartScroll
    \/ UserScrolls
    \/ ContentAdded
    \/ ScrollEvent
    \/ SmartScroll
    \/ ForceScroll

SpecScroll == InitScroll /\ [][NextScroll]_vars

----------------------------------------------------------------------------
(* The unified dev-eval wizard on the page                                 *)

\* Most evaluation requests one run of the page issues.
MaxFetches == 2

\* What the user types into #query-input: at the query and prompt steps
\* nothing, blanks or a text; at the parameter steps also numerals inside
\* and outside the ranges and a numeral followed by a letter.
TextInputs == {<<>>, Str(<<" ">>), Str(<<" ", "q">>)}
NumberInputs ==
    {<<>>, Str(<<"q">>), Str(<<"-", "1">>), Str(<<"0">>), Str(<<"1">>),
     Str(<<"1", "x">>), Str(<<"4", "0", "0", "1">>)}
InputsAt(step) ==
    IF step \in {"idle", "query", "prompt_1", "prompt_2", "processing"}
    THEN TextInputs ELSE NumberInputs

InitWizard ==
    /\ UrlIdle
    /\ ScrollIdle
    /\ WizardIdle
    /\ ChatIdle
    /\ PageIdle
    /\ FeedbackIdle
    /\ lastStep = "none"

\* A click on one of the three mode buttons.
ToggleMode ==
    /\ \E mode \in MODES : state' = toggleMode(state, mode)
    /\ lastStep' = "toggleMode"
    /\ UNCHANGED <<fetches, pending, urlVars, scrollVars, chatVars, pageVars,
                 feedbackVars>>

\* window.submitQuery while a mode is active and #query-input holds typed:
\* handleSubmit hands the trimmed value to handleUserInput; the state is
\* what that leaves, and when processEvaluation was called, one more request
\* is on its way.
HandleSubmitOf(typed) ==
    /\ state.activeMode # NoMode
    /\ LET Submitted(r) ==
               /\ r.evaluate => fetches < MaxFetches
               /\ state' = r.state
               /\ fetches' = IF r.evaluate THEN fetches + 1 ELSE fetches
               /\ pending' = IF r.evaluate THEN pending + 1 ELSE pending
       IN  Submitted(handleUserInput(state, Trim(typed)))
    /\ lastStep' = "handleSubmit"
    /\ UNCHANGED <<urlVars, scrollVars, chatVars, pageVars,
                 feedbackVars>>

HandleSubmit == \E typed \in InputsAt(state.currentStep) : HandleSubmitOf(typed)

\* The response of a request, or its failure, arrives: the then and the
\* catch handler both set currentStep to 'query'.
ResponseArrives ==
    /\ pending > 0
    /\ pending' = pending - 1
    /\ state' = [state EXCEPT !.currentStep = "query"]
    /\ lastStep' = "response"
    /\ UNCHANGED <<fetches, urlVars, scrollVars, chatVars, pageVars,
                 feedbackVars>>

NextWizard ==
    \/ ToggleMode
    \/ HandleSubmit
    \/ ResponseArrives

SpecWizard == InitWizard /\ [][NextWizard]_vars

----------------------------------------------------------------------------
(* DevEvalChat on the page                                                 *)

InitChat ==
    /\ UrlIdle
    /\ ScrollIdle
    /\ WizardIdle
    /\ ChatIdle
    /\ PageIdle
    /\ FeedbackIdle
    /\ lastStep = "none"

\* A click on the eVal button, or window.toggleDevMode().
ChatToggleMode ==
    /\ isDeveloperMode' = ~isDeveloperMode
    /\ chat' = [chat EXCEPT !.currentState =
                   IF isDeveloperMode THEN "idle" ELSE "query"]
    /\ lastStep' = "toggleDevMode"
    /\ UNCHANGED <<chatFetches, chatPending, urlVars, scrollVars, wizardVars,
                   pageVars, feedbackVars>>

\* window.submitQuery in eVal mode: at the three parameter states the user
\* types one of NumberInputs, else one of TextInputs; chat is what
\* handleSubmit leaves, and when processEvaluation was called, one more
\* request is on its way.
ChatSubmit ==
    /\ isDeveloperMode
    /\ LET Submitted(r) ==
               /\ r.evaluate => chatFetches < MaxFetches
               /\ chat' = r.state
               /\ chatFetches' =
                    IF r.evaluate THEN chatFetches + 1 ELSE chatFetches
               /\ chatPending' =
                    IF r.evaluate THEN chatPending + 1 ELSE chatPending
       IN  \E typed \in IF chat.currentState
                            \in {"temperature", "top_p", "max_tokens"}
                        THEN NumberInputs ELSE TextInputs :
             Submitted(DevEvalChatHandleSubmit(chat, typed))
    /\ lastStep' = "handleSubmit"
    /\ UNCHANGED <<isDeveloperMode, urlVars, scrollVars, wizardVars, pageVars,
                   feedbackVars>>

\* A response without an error field arrives: the result is shown.
ChatResponseOk ==
    /\ chatPending > 0
    /\ chatPending' = chatPending - 1
    /\ lastStep' = "response"
    /\ UNCHANGED <<chat, isDeveloperMode, chatFetches, urlVars, scrollVars,
                   wizardVars, pageVars, feedbackVars>>

\* A response with an error field arrives, or the request fails.
ChatResponseError ==
    /\ chatPending > 0
    /\ chatPending' = chatPending - 1
    /\ chat' = [chat EXCEPT !.currentState = "query"]
    /\ lastStep' = "error"
    /\ UNCHANGED <<isDeveloperMode, chatFetches, urlVars, scrollVars,
                   wizardVars, pageVars, feedbackVars>>

NextChat ==
    \/ ChatToggleMode
    \/ ChatSubmit
    \/ ChatResponseOk
    \/ ChatResponseError

SpecChat == InitChat /\ [][NextChat]_vars

----------------------------------------------------------------------------
(* Citation toggle, dark mode and the automation form                      *)

\* Default to dynamic citation mode.
DEFAULT_MODE == TRUE

\* The page is about to load: anything may be stored under the two keys by
\* an earlier visit, and the system may prefer either colour scheme.
InitPage ==
    /\ UrlIdle
    /\ ScrollIdle
    /\ WizardIdle
    /\ ChatIdle
    /\ FeedbackIdle
    /\ localStorage \in [useDynamicCitations : {"null", "true", "false"},
                        theme : {"null", "dark", "light"}]
    /\ loaded = FALSE
    /\ useDynamicCitations = TRUE
    /\ lastChosen = "none"
    /\ prefersDark \in BOOLEAN
    /\ dark = FALSE
    /\ form = [initial_question |-> <<>>, follow_up_question |-> <<>>,
               repetitions |-> <<>>]
    /\ formDisabled = FALSE
    /\ status = "none"
    /\ automationRequests = 0
    /\ lastStep = "none"

\* The page loads, or loads again: the citation module initialises
\* useDynamicCitations from localStorage, the
\* DOMContentLoaded listener of dark-mode.js applies the saved theme or else
\* the system preference, and the automation form is as in the document.
LoadPage ==
    /\ loaded' = TRUE
    /\ useDynamicCitations' =
         IF localStorage.useDynamicCitations = "true"
         THEN TRUE ELSE DEFAULT_MODE
    /\ dark' = IF localStorage.theme # "null"
               THEN localStorage.theme = "dark"
               ELSE prefersDark
    /\ form' = [initial_question |-> <<>>, follow_up_question |-> <<>>,
                repetitions |-> <<>>]
    /\ formDisabled' = FALSE
    /\ status' = "none"
    /\ lastStep' = "load"
    /\ UNCHANGED <<localStorage, lastChosen, prefersDark, automationRequests,
                   urlVars, scrollVars, wizardVars, chatVars, feedbackVars>>

\* toggleCitationMode(): a click on the button 'Dynamic Citations'.
ToggleCitationMode ==
    /\ loaded
    /\ useDynamicCitations' = ~useDynamicCitations
    /\ localStorage' =
         [localStorage EXCEPT !.useDynamicCitations =
             IF useDynamicCitations THEN "false" ELSE "true"]
    /\ lastChosen' = IF useDynamicCitations THEN "false" ELSE "true"
    /\ lastStep' = "toggleCitationMode"
    /\ UNCHANGED <<loaded, prefersDark, dark, form, formDisabled, status,
                   automationRequests, urlVars, scrollVars, wizardVars,
                   chatVars, feedbackVars>>

\* The change listener of #theme-toggle: the user flipped the switch, which
\* applyTheme keeps in step with the class 'dark'.
ThemeToggle ==
    /\ loaded
    /\ localStorage' =
         [localStorage EXCEPT !.theme = IF dark THEN "light" ELSE "dark"]
    /\ dark' = ~dark
    /\ lastStep' = "themeToggle"
    /\ UNCHANGED <<loaded, useDynamicCitations, lastChosen, prefersDark, form,
                   formDisabled, status, automationRequests, urlVars,
                   scrollVars, wizardVars, chatVars, feedbackVars>>

\* The change listener of the media query that applies the preference
\* whatever is saved.
SystemPreferenceChangeUnguarded ==
    /\ prefersDark' = ~prefersDark
    /\ dark' = IF loaded THEN ~prefersDark ELSE dark
    /\ lastStep' = "systemPreference"
    /\ UNCHANGED <<localStorage, loaded, useDynamicCitations, lastChosen, form,
                   formDisabled, status, automationRequests, urlVars,
                   scrollVars, wizardVars, chatVars, feedbackVars>>

\* The system colour scheme changes; the change listener of the media query
\* applies it only if no theme is saved.
SystemPreferenceChange ==
    /\ prefersDark' = ~prefersDark
    /\ dark' = IF loaded /\ localStorage.theme = "null"
               THEN ~prefersDark ELSE dark
    /\ lastStep' = "systemPreference"
    /\ UNCHANGED <<localStorage, loaded, useDynamicCitations, lastChosen, form,
                   formDisabled, status, automationRequests, urlVars,
                   scrollVars, wizardVars, chatVars, feedbackVars>>

\* runAutomation(): a click on the start button (disabled while a run is
\* under way) with the fields holding f.  repetitions < 1 is false for NaN.
RunAutomation ==
    /\ loaded
    /\ ~formDisabled
    /\ \E f \in [initial_question : TextInputs, follow_up_question : TextInputs,
                repetitions : {<<>>, Str(<<"x">>), Str(<<"0">>),
                               Str(<<"1">>)}] :
         LET Run(repetitions) ==
                 IF \/ Len(Trim(f.initial_question)) = 0
                    \/ Len(Trim(f.follow_up_question)) = 0
                    \/ ~repetitions.nan /\ repetitions.val < 1
                 THEN /\ status' = "Please fill in all fields"
                      /\ UNCHANGED <<formDisabled, automationRequests>>
                 ELSE /\ automationRequests < MaxFetches
                      /\ formDisabled' = TRUE
                      /\ status' = "Running automation..."
                      /\ automationRequests' = automationRequests + 1
         IN  form' = f /\ Run(parseInt(f.repetitions))
    /\ lastStep' = "runAutomation"
    /\ UNCHANGED <<localStorage, loaded, useDynamicCitations, lastChosen,
                   prefersDark, dark, urlVars, scrollVars, wizardVars,
                   chatVars, feedbackVars>>

\* The response of /run_automation arrives, or the request fails: the status
\* says so and the finally block enables the form.
AutomationResponse ==
    /\ formDisabled
    /\ status' \in {"Automation complete.", "Error"}
    /\ formDisabled' = FALSE
    /\ lastStep' = "automationResponse"
    /\ UNCHANGED <<localStorage, loaded, useDynamicCitations, lastChosen,
                   prefersDark, dark, form, automationRequests, urlVars,
                   scrollVars, wizardVars, chatVars, feedbackVars>>

NextPage ==
    \/ LoadPage
    \/ ToggleCitationMode
    \/ ThemeToggle
    \/ SystemPreferenceChange
    \/ RunAutomation
    \/ AutomationResponse

SpecPage == InitPage /\ [][NextPage]_vars

----------------------------------------------------------------------------
(* The feedback widgets of the bot messages                                *)

\* Most bot messages that get a widget, most reasons of a list the user
\* ticks among, and most POSTs counted for one message.
MaxMessages == 1
MaxReasons == 2
MaxPosts == 2

InitFeedback ==
    /\ UrlIdle
    /\ ScrollIdle
    /\ WizardIdle
    /\ ChatIdle
    /\ PageIdle
    /\ FeedbackIdle
    /\ lastStep = "none"

\* addFeedbackToLastMessage: the last bot message gets a widget with a new
\* message id; nothing is selected, nothing was posted.
AddFeedback ==
    /\ Len(messages) < MaxMessages
    /\ messages' = Append(messages,
           [controls |-> TRUE, selectedType |-> "none", checked |-> {},
            post |-> [feedback_type |-> "none", feedback_tags |-> <<>>],
            posts |-> 0, inFlight |-> 0,
            succeeded |-> FALSE, failed |-> FALSE])
    /\ lastStep' = "addFeedback"
    /\ UNCHANGED <<feedbackSubmissions, urlVars, scrollVars, wizardVars,
                   chatVars, pageVars>>

\* handleThumbsUp and handleThumbsDown: a click on a thumb of message m.
ThumbClick ==
    /\ \E m \in 1..Len(messages), type \in {"positive", "negative"} :
         /\ messages[m].controls
         /\ messages' =
              IF m \in feedbackSubmissions THEN messages
              ELSE [messages EXCEPT ![m].checked = {},
                                    ![m].selectedType = type]
    /\ lastStep' = "thumb"
    /\ UNCHANGED <<feedbackSubmissions, urlVars, scrollVars, wizardVars,
                   chatVars, pageVars>>

\* The user clicks reason i of the list the details of message m show: a
\* radio button after thumbs up, a checkbox after thumbs down.
ReasonClick ==
    /\ \E m \in 1..Len(messages), i \in 1..MaxReasons :
         /\ messages[m].controls
         /\ messages[m].selectedType # "none"
         /\ messages' =
              [messages EXCEPT ![m].checked =
                  IF messages[m].selectedType = "positive" THEN {i}
                  ELSE IF i \in @ THEN @ \ {i} ELSE @ \cup {i}]
    /\ lastStep' = "reason"
    /\ UNCHANGED <<feedbackSubmissions, urlVars, scrollVars, wizardVars,
                   chatVars, pageVars>>

\* The click listener of the cancel button: resetFeedbackState.
CancelClick ==
    /\ \E m \in 1..Len(messages) :
         /\ messages[m].controls
         /\ messages[m].selectedType # "none"
         /\ messages' = [messages EXCEPT ![m].checked = {},
                                         ![m].selectedType = "none"]
    /\ lastStep' = "cancel"
    /\ UNCHANGED <<feedbackSubmissions, urlVars, scrollVars, wizardVars,
                   chatVars, pageVars>>

\* A click on Submit that posts without marking the message as submitted.
SubmitClickNotMarked ==
    /\ \E m \in 1..Len(messages) :
         /\ messages[m].controls
         /\ \E data \in {FeedbackHandleSubmit(messages[m],
                                              m \in feedbackSubmissions)} :
              IF data.feedback_type = "none"
              THEN /\ lastStep' = "submitRefused"
                   /\ UNCHANGED <<messages, feedbackSubmissions>>
              ELSE /\ messages[m].posts < MaxPosts
                   /\ feedbackSubmissions' = feedbackSubmissions
                   /\ messages' = [messages EXCEPT ![m].post = data,
                                                   ![m].posts = @ + 1,
                                                   ![m].inFlight = @ + 1]
                   /\ lastStep' = "submit"
    /\ UNCHANGED <<urlVars, scrollVars, wizardVars, chatVars, pageVars>>

\* The click listener of the submit button of message m: handleSubmit, and
\* unless that returns early, submitFeedback up to its call of fetch.
SubmitClick ==
    /\ \E m \in 1..Len(messages) :
         /\ messages[m].controls
         /\ \E data \in {FeedbackHandleSubmit(messages[m],
                                              m \in feedbackSubmissions)} :
              IF data.feedback_type = "none"
              THEN /\ lastStep' = "submitRefused"
                   /\ UNCHANGED <<messages, feedbackSubmissions>>
              ELSE /\ messages[m].posts < MaxPosts
                   /\ feedbackSubmissions' = feedbackSubmissions \cup {m}
                   /\ messages' = [messages EXCEPT ![m].post = data,
                                                   ![m].posts = @ + 1,
                                                   ![m].inFlight = @ + 1]
                   /\ lastStep' = "submit"
    /\ UNCHANGED <<urlVars, scrollVars, wizardVars, chatVars, pageVars>>

\* The response of a POST for message m arrives with success true, or it
\* arrives without, or the request fails: showFeedbackConfirmation puts its
\* text in the place of the content of the widget, and after a failure the
\* message id is taken out of feedbackSubmissions.
FeedbackResponse ==
    /\ \E m \in 1..Len(messages), success \in BOOLEAN :
         /\ messages[m].inFlight > 0
         /\ messages' =
              [messages EXCEPT ![m].inFlight = @ - 1,
                               ![m].controls = FALSE,
                               ![m].checked = {},
                               ![m].succeeded = @ \/ success,
                               ![m].failed = @ \/ ~success]
         /\ feedbackSubmissions' =
              IF success THEN feedbackSubmissions
              ELSE feedbackSubmissions \ {m}
         /\ lastStep' = IF success THEN "success" ELSE "failure"
    /\ UNCHANGED <<urlVars, scrollVars, wizardVars, chatVars, pageVars>>

NextFeedback ==
    \/ AddFeedback
    \/ ThumbClick
    \/ ReasonClick
    \/ CancelClick
    \/ SubmitClick
    \/ FeedbackResponse

SpecFeedback == InitFeedback /\ [][NextFeedback]_vars

----------------------------------------------------------------------------
(* Properties                                                              *)

\* The first call of function f has returned.
Done(f) == pc = "done" /\ fn = f /\ prev = NoResult

\* u starts with http:// or https:// and ends in .pdf, .txt or .csv.
IsDocumentUrl(u) ==
    /\ \E p \in Prefixes : StartsWith(u, p)
    /\ \E e \in Extensions : EndsWith(u, e)

\* The reference is the plain Base64 of the payload followed by extra.
EncodedThenAppended == base64Url.t = "string" /\ garble = "none"

\* Number of '?' in s.
CountQuestionMarks(s) == Cardinality({i \in 1..Len(s) : s[i] = Ord("?")})

\* C1: for every URL u that starts with http:// or https:// and ends in
\* .pdf, .txt or .csv, decodeAndCleanUrl(Base64(u)).cleaned equals u, also
\* when u holds a recognised extension before its final one.
C1_RoundTrip ==
    (/\ Done("decodeAndCleanUrl")
     /\ EncodedThenAppended
     /\ IsDocumentUrl(payload)
     /\ extra = <<>>)
    => ret.cleaned = Some(payload)

\* C2: a non-null cleaned value starts with http:// or https:// and ends at
\* the recognised extension (.pdf, .txt or .csv, in any case): nothing that
\* followed the extension in the decoded text is left.
C2_CleanedEndsAtExtension ==
    (/\ Done("decodeAndCleanUrl")
     /\ ~ret.threw
     /\ ~ret.cleaned.null)
    => /\ \E p \in Prefixes : MatchesIgnoreCaseAt(ret.cleaned.s, p, 0)
       /\ \E e \in Extensions :
            /\ Len(ret.cleaned.s) >= Len(e)
            /\ MatchesIgnoreCaseAt(ret.cleaned.s, e, Len(ret.cleaned.s) - Len(e))

\* C3: for every Base64 encoding e of a URL u ending in .pdf/.txt/.csv and
\* every g of 0 to MaxGarbage characters outside the Base64 alphabet,
\* decodeAndCleanUrl(e + g).cleaned equals u.
C3_Tolerance ==
    (/\ Done("decodeAndCleanUrl")
     /\ EncodedThenAppended
     /\ IsDocumentUrl(payload)
     /\ Len(extra) <= MaxGarbage
     /\ \A i \in 1..Len(extra) : ~IsBase64Char(extra[i]))
    => ret.cleaned = Some(payload)

\* C4: for every Base64 encoding of a URL ending in .pdf/.txt/.csv followed
\* by 1 to MaxExtraEncoded characters of the Base64 alphabet, decodeAndCleanUrl
\* returns a cleaned URL that is not null and holds 'http'.
C4_OffByOneRecovery ==
    (/\ Done("decodeAndCleanUrl")
     /\ EncodedThenAppended
     /\ IsDocumentUrl(payload)
     /\ Len(extra) >= 1
     /\ Len(extra) <= MaxExtraEncoded
     /\ \A i \in 1..Len(extra) : IsBase64Char(extra[i]))
    => /\ ~ret.cleaned.null
       /\ Includes(ret.cleaned.s, HTTP)

\* C4, reached: two stray characters, of which the second makes both decodes
\* of the whole input fail, were appended to the encoding of a .txt URL and
\* the URL came back.
C4_Witness ==
    /\ Done("decodeAndCleanUrl")
    /\ EncodedThenAppended
    /\ IsDocumentUrl(payload)
    /\ EndsWith(payload, DotTxt)
    /\ extra = Str(<<"0", "=">>)
    /\ ~Atob(PadBase64(base64Url.s)).ok
    /\ ret.cleaned = Some(payload)

\* s has no white space at either end, is not wrapped in a pair of equal
\* quotes and holds no character reference.
IsPlainToken(s) ==
    /\ Len(s) > 0 => ~IsTrimSpace(s[1]) /\ ~IsTrimSpace(s[Len(s)])
    /\ ~(Len(s) > 0 /\ s[1] = Ord("dquote") /\ s[Len(s)] = Ord("dquote"))
    /\ ~(Len(s) > 0 /\ s[1] = Ord("'") /\ s[Len(s)] = Ord("'"))
    /\ \A i \in 0..Len(s) : \A e \in EntityNames : ~StartsWithAt(s, e, i)

\* The token was sanitised and the result sanitised again.
SanitizedTwice == pc = "done" /\ fn = "sanitizeSasToken" /\ prev # NoResult

\* C5 as stated: sanitizeSasToken(sanitizeSasToken(t)) equals
\* sanitizeSasToken(t) for every token t.
C5_Idempotent == SanitizedTwice => ret.val = prev.val

\* C5, amended: sanitizeSasToken(sanitizeSasToken(t)) equals
\* sanitizeSasToken(t) for every token t whose sanitised value has no white
\* space at either end, is not wrapped in a pair of equal quotes and holds no
\* character reference.
C5_IdempotentOnPlain ==
    (SanitizedTwice /\ IsPlainToken(prev.val)) => ret.val = prev.val

\* C5, reached: a token in one layer of quotes, holding one character
\* reference, was sanitised twice.
C5_Witness ==
    /\ SanitizedTwice
    /\ sasToken = Some(Str(<<"dquote", "&", "a", "m", "p", ";", "dquote">>))
    /\ prev.val = Amp
    /\ ret.val = prev.val

C7_EmptyReferenceFails ==
    (/\ pc = "done"
     /\ fn \in {"createDownloadLink", "DynamicContainer.createDownloadLink"}
     /\ Falsy(base64Url))
    => /\ ~ret.threw
       /\ ret.success = FALSE
       /\ ret.error = Error("No Base64 URL provided")
       /\ ret.steps = <<>>
       /\ debugLogger.logs = <<>>

\* C7, reached: urlDecoder.createDownloadLink was called with the empty
\* string while the logger was enabled.
C7_Witness ==
    /\ Done("createDownloadLink")
    /\ base64Url = JsString(<<>>)
    /\ debugLogger.present
    /\ debugLogger.enabled
    /\ ret.success = FALSE

\* C8: urlDecoder.createDownloadLink returns a result for every input, and
\* when a step of the pipeline raised, the result has success = false and
\* the exception's message as error.
C8_NeverThrows ==
    Done("createDownloadLink")
    => /\ ~ret.threw
       /\ ret.success \in BOOLEAN
       /\ LET Raised(r) ==
                  r.threw => ret.success = FALSE /\ ret.error = Error(r.message)
          IN  ~Falsy(base64Url)
              => Raised(ResolveLink(base64Url, showDetails, sasToken))

\* C8, reached: the reference was a number, so decodeAndCleanUrl raised a
\* TypeError, and createDownloadLink returned it as its error.
C8_Witness ==
    /\ Done("createDownloadLink")
    /\ base64Url = JsNumber(7)
    /\ decodeAndCleanUrlCall(base64Url).threw
    /\ ~ret.threw
    /\ ret.error = Error(TrimTypeError)

\* C9: for a non-empty reference urlDecoder.createDownloadLink returns
\* success = true and error = null exactly when decodeAndCleanUrl yields a
\* cleaned URL; the link then refers to
\* appendSasToken(cleaned, sanitizeSasToken(APP_CONFIG.sasToken)); otherwise
\* the result has success = false, an error and no link.
C9_SuccessIffCleaned ==
    (Done("createDownloadLink") /\ ~Falsy(base64Url))
    => LET Found(d, found) ==
               /\ (ret.success /\ ret.error.null) <=> found
               /\ found =>
                    ret.html.href =
                      Some(appendSasToken(d.cleaned.s,
                                          sanitizeSasToken(sasToken).val).val)
               /\ ~found =>
                    /\ ret.success = FALSE
                    /\ ~ret.error.null
                    /\ ret.html.href = Null
           Decoded(d) == Found(d, ~d.threw /\ ~d.cleaned.null)
       IN  Decoded(decodeAndCleanUrlCall(base64Url))

\* C9, reached: a reference was resolved with a token configured in quotes,
\* and the link carries the token without them.
C9_Witness ==
    /\ Done("createDownloadLink")
    /\ sasToken = Some(Str(<<"dquote", "s", "=", "1", "dquote">>))
    /\ ret.success
    /\ ~ret.html.href.null
    /\ EndsWith(ret.html.href.s, Str(<<".", "c", "s", "v", "?", "s", "=", "1">>))

\* C10: appendSasToken(url, token) returns url when token is empty, and
\* otherwise url, then '&' if url holds a '?' and '?' if not, then token
\* less one leading '?'.
C10_AppendSasToken ==
    Done("appendSasToken")
    => LET tok == IF sasToken.null THEN <<>> ELSE sasToken.s
           t == IF Len(tok) > 0 /\ tok[1] = Ord("?") THEN Tail(tok) ELSE tok
           sep == IF CountQuestionMarks(url) > 0 THEN Ord("&") ELSE Ord("?")
       IN  ret.val = IF Len(tok) = 0 THEN url ELSE Append(url, sep) \o t

\* C10, reached: the documented example with an existing query string,
\* appendSasToken('https://x/y.pdf?a=1', 'tok=1') = 'https://x/y.pdf?a=1&tok=1'.
C10_Witness ==
    /\ Done("appendSasToken")
    /\ url = Str(<<"h", "t", "t", "p", "s", ":", "/", "/", "x", "/", "y", ".",
                   "p", "d", "f", "?", "a", "=", "1">>)
    /\ sasToken = Some(Str(<<"t", "o", "k", "=", "1">>))
    /\ ret.val = Str(<<"h", "t", "t", "p", "s", ":", "/", "/", "x", "/", "y", ".",
                       "p", "d", "f", "?", "a", "=", "1", "&", "t", "o", "k",
                       "=", "1">>)

\* u starts with http:// or https:// and does not end in .pdf, .txt or .csv
\* in any case.
IsOtherUrl(u) ==
    /\ \E p \in Prefixes : StartsWith(u, p)
    /\ \A e \in Extensions : ~MatchesIgnoreCaseAt(u, e, Len(u) - Len(e))

\* C11: for every reference that is the Base64 of a URL whose file extension
\* is none of .pdf, .txt, .csv (in any case), decodeAndCleanUrl returns
\* cleaned = null with raw holding the decoded text, and createDownloadLink
\* returns success = false.
C11_OtherExtensionNoMatch ==
    (/\ pc = "done"
     /\ prev = NoResult
     /\ fn \in {"decodeAndCleanUrl", "createDownloadLink"}
     /\ EncodedThenAppended
     /\ extra = <<>>
     /\ IsOtherUrl(payload))
    => IF fn = "decodeAndCleanUrl"
       THEN ret.cleaned = Null /\ ret.raw = Some(payload)
       ELSE ret.success = FALSE

\* C12: customBase64Decode returns a string for every string input; each
\* nested call is made on a strictly shorter string than the call that makes
\* it, and a call on a string of n >= 1 characters makes at most n calls in
\* all.
C12_RetryTerminates ==
    Done("customBase64Decode")
    => LET Bounded(calls) ==
               /\ \A i \in 1..(Len(calls) - 1) :
                    Len(calls[i + 1].input) < Len(calls[i].input)
               /\ Len(calls) <= IF Len(base64Url.s) = 0 THEN 1
                                ELSE Len(base64Url.s)
               /\ calls[1].input = base64Url.s
       IN  /\ Bounded(customBase64DecodeCalls(base64Url.s))
           /\ DOMAIN ret.val = 1..Len(ret.val)

\* C12, reached: 'a=a' was decoded by three nested calls, on 'a=a', 'a='
\* and 'a'.
C12_Witness ==
    /\ Done("customBase64Decode")
    /\ base64Url.s = Str(<<"a", "=", "a">>)
    /\ Len(customBase64DecodeCalls(base64Url.s)) = 3
    /\ ret.val = Str(<<"a">>)

\* C13: when no call of customBase64Decode decodes its input, neither the
\* outermost nor any retry, the outermost call returns its own input
\* unchanged.
C13_TerminalFallback ==
    (/\ Done("customBase64Decode")
     /\ LET NoneDecoded(calls) == \A i \in 1..Len(calls) : ~calls[i].decoded
        IN  NoneDecoded(customBase64DecodeCalls(base64Url.s)))
    => ret.val = base64Url.s

\* The characters that end a text node or an attribute value of the markup.
MarkupChars == {Ord("<"), Ord(">"), Ord("dquote")}

\* The texts interpolated into the html h.
Interpolated(h) ==
    {h.base64Input, h.rawDecoded, h.cleanedUrl, h.viewHref, h.href,
     h.dataDlUrl}

\* C14: in the html either createDownloadLink returns, no text interpolated
\* from the reference, the raw decode, the cleaned URL or the link holds
\* '<', '>' or '"' as such.
C14_HtmlEscaped ==
    (/\ pc = "done"
     /\ fn \in {"createDownloadLink", "DynamicContainer.createDownloadLink"})
    => \A t \in Interpolated(ret.html) :
         t.null \/ \A i \in 1..Len(t.s) : t.s[i] \notin MarkupChars

\* C16: for every non-empty reference DynamicContainer.createDownloadLink
\* returns success = true with the view link '/api/view/' + reference and
\* the download link '/api/download/' + reference; no function of the decode
\* pipeline is called, nothing decoded is shown and neither link holds the
\* configured token.
C16_BackendProxied ==
    (Done("DynamicContainer.createDownloadLink") /\ ~Falsy(base64Url))
    => /\ ~ret.threw
       /\ ret.success
       /\ ret.error = NoError
       /\ ret.html.viewHref = Some(ApiView \o JsToString(base64Url))
       /\ ret.html.href = Some(ApiDownload \o JsToString(base64Url))
       /\ ret.html.dataDlUrl = ret.html.href
       /\ ret.steps = <<>>
       /\ ret.html.rawDecoded.null /\ ret.html.cleanedUrl.null
       /\ LET NoToken(tok) ==
                  Len(tok) > 0
                  => /\ ~Includes(ret.html.viewHref.s, tok)
                     /\ ~Includes(ret.html.href.s, tok)
          IN  NoToken(sanitizeSasToken(sasToken).val)

\* C16, reached: the Base64 of a .txt URL was given to the backend-proxied
\* variant while a token was configured.
C16_Witness ==
    /\ Done("DynamicContainer.createDownloadLink")
    /\ EndsWith(payload, DotTxt)
    /\ sasToken = Some(Str(<<"?", "s", "=", "1">>))
    /\ ret.success
    /\ StartsWith(ret.html.viewHref.s, ApiView)
    /\ EndsWith(ret.html.href.s, base64Url.s)

\* C17: while the flag set by the last scroll event says the user scrolled
\* up and the view is 80 px or more from the bottom, smartScroll.smart
\* leaves the element as it is, however often it is called;
\* smartScroll.force always puts the view at the bottom and clears the
\* flag, and smartScroll.smart called next puts the view at the bottom.
C17_SmartScroll ==
    [][/\ (lastStep' = "smart" /\ userScrolledUp /\ ~isNearBottom(el))
          => el' = el /\ userScrolledUp'
       /\ lastStep' = "force"
          => el'.scrollTop = MaxScrollTop(el') /\ ~userScrolledUp'
       /\ (lastStep = "force" /\ lastStep' = "smart")
          => el'.scrollTop = MaxScrollTop(el')]_vars

\* C17, reached: the user had scrolled up, content was added, and
\* smartScroll.smart was called and left the view where the user put it,
\* more than 80 px from the bottom.
C17_Witness ==
    /\ lastStep = "smart"
    /\ listening
    /\ userScrolledUp
    /\ ~isNearBottom(el)
    /\ el.scrollTop > 0
    /\ el.scrollTop < MaxScrollTop(el)

\* The fixed order of the steps, the step at which a mode issues its request
\* and the step that follows a step in a mode.
StepOrder ==
    <<"query", "prompt_1", "temperature_1", "top_p_1", "max_tokens_1",
      "runs_1", "prompt_2", "temperature_2", "top_p_2", "max_tokens_2",
      "runs_2">>
LastStepOf(mode) ==
    IF mode = "developer" THEN "max_tokens_1"
    ELSE IF mode = "batch" THEN "runs_1"
    ELSE "runs_2"
StepAfter(mode, step) ==
    IF step = LastStepOf(mode) THEN "processing"
    ELSE IF \E i \in 1..(Len(StepOrder) - 1) : StepOrder[i] = step
    THEN StepOrder[1 + CHOOSE i \in 1..(Len(StepOrder) - 1) :
                         StepOrder[i] = step]
    ELSE step

\* s is an optionally signed decimal numeral, and its value in tenths lies
\* in lo..hi.
IsNumeral(s) ==
    LET Rest(from, n) ==
            /\ n > 0
            /\ \/ from + n > Len(s)
               \/ /\ s[from + n] = Ord(".")
                  /\ from + n < Len(s)
                  /\ from + n + DigitRun(s, from + n + 1) = Len(s)
    IN  Rest(AfterSign(s), DigitRun(s, AfterSign(s)))
NumeralIn(s, lo, hi) ==
    IsNumeral(s) /\ parseFloat(s).val >= lo /\ parseFloat(s).val <= hi

\* The range of the value a parameter step asks for, in tenths.
RangeAt(step) ==
    IF step \in {"temperature_1", "temperature_2"} THEN <<0, 20>>
    ELSE IF step \in {"top_p_1", "top_p_2"} THEN <<0, 10>>
    ELSE IF step \in {"max_tokens_1", "max_tokens_2"} THEN <<10, 40000>>
    ELSE <<10, 200>>
ParameterSteps ==
    {"temperature_1", "top_p_1", "max_tokens_1", "runs_1",
     "temperature_2", "top_p_2", "max_tokens_2", "runs_2"}

\* The input a step is meant to take: a non-empty query, any prompt, and at
\* a parameter step nothing or a numeral in the range of the step.
WellFormed(step, input) ==
    IF step = "query" THEN Len(input) > 0
    ELSE IF step \in ParameterSteps
    THEN Len(input) = 0
         \/ NumeralIn(input, RangeAt(step)[1], RangeAt(step)[2])
    ELSE TRUE

\* C18: an input handled by the wizard keeps the mode and either leaves the
\* step where it is or moves it to the step that follows it in the fixed
\* order (a well-formed input always moves it), where the step that follows
\* max_tokens_1 in developer mode, runs_1 in batch mode and runs_2 in compare
\* mode is 'processing'; a request is issued exactly by the inputs that move
\* the step to 'processing', one request each, and an
\* input at 'processing' moves nothing.
C18_LinearWizard ==
    /\ [](state.activeMode # NoMode =>
           \A typed \in InputsAt(state.currentStep) :
             WellFormed(state.currentStep, Trim(typed))
             => handleUserInput(state, Trim(typed)).state.currentStep
                  = StepAfter(state.activeMode, state.currentStep))
    /\ [][lastStep' = "handleSubmit" =>
        LET mode == state.activeMode
            step == state.currentStep
            next == state'.currentStep
        IN  /\ state'.activeMode = mode
            /\ next \in {step, StepAfter(mode, step)}
            /\ IF next = "processing" /\ step # "processing"
               THEN /\ step = LastStepOf(mode)
                    /\ fetches' = fetches + 1
                    /\ pending' = pending + 1
               ELSE fetches' = fetches /\ pending' = pending]_vars

\* A pass in compare mode has gone through all eleven steps and its request
\* is on its way.
C18_Witness ==
    /\ lastStep = "handleSubmit"
    /\ state.activeMode = "compare"
    /\ state.currentStep = "processing"
    /\ fetches > 0
    /\ pending > 0

\* C19: an empty query, and at a parameter step an input that is neither
\* empty nor a numeral in the range of the step, leaves the step, the stored
\* query, prompts and parameters unchanged and issues no request.
C19_RejectedInputChangesNothing ==
    [][\A typed \in InputsAt(state.currentStep) :
         (/\ HandleSubmitOf(typed)
          /\ state.currentStep \in ParameterSteps \cup {"query"}
          /\ ~WellFormed(state.currentStep, Trim(typed)))
         => (state' = state /\ fetches' = fetches /\ pending' = pending)]_vars

\* C20: while a request of DevEvalChat is on its way, a submitted input
\* changes neither params nor currentState and starts no request.
C20_InputIgnoredInFlight ==
    [][(lastStep' = "handleSubmit" /\ chatPending > 0)
       => (chat' = chat /\ chatFetches' = chatFetches
           /\ chatPending' = chatPending)]_vars

\* C21: in eVal mode at the prompt, temperature, top_p and max_tokens states,
\* handleSubmit with a blank input box moves DevEvalChat on (to the state
\* that follows, after max_tokens to the state processEvaluation leaves)
\* with the default value stored: the empty prompt, temperature 0.3, top_p
\* 1.0, max_tokens 1000.
C21_BlankInputTakesDefault ==
    LET After(c) == DevEvalChatHandleSubmit(c, Str(<<" ">>)).state
    IN  isDeveloperMode =>
        /\ chat.currentState = "prompt" =>
             /\ After(chat).currentState = "temperature"
             /\ After(chat).params.prompt = <<>>
        /\ chat.currentState = "temperature" =>
             /\ After(chat).currentState = "top_p"
             /\ After(chat).params.temperature = 3
        /\ chat.currentState = "top_p" =>
             /\ After(chat).currentState = "max_tokens"
             /\ After(chat).params.top_p = 10
        /\ chat.currentState = "max_tokens" =>
             /\ After(chat).currentState # "max_tokens"
             /\ After(chat).params.max_tokens = 1000

\* C22: once toggleCitationMode has been called, the mode of the loaded page
\* is the mode the last call chose, also after the page has loaded again
\* with the same localStorage: Off stays Off and On stays On.
C22_CitationModeRestored ==
    (loaded /\ lastChosen # "none")
    => (useDynamicCitations <=> lastChosen = "true")

\* C26: when the page loads, the saved theme is applied if there is one and
\* the system colour scheme otherwise; when the system colour scheme changes
\* on the loaded page, the applied theme stays as it is if a theme is saved
\* and follows the new preference otherwise; and a theme once saved stays
\* saved.
C26_ThemePrecedence ==
    [][/\ lastStep' = "load" =>
            dark' = IF localStorage.theme # "null"
                    THEN localStorage.theme = "dark" ELSE prefersDark
       /\ (lastStep' = "systemPreference" /\ loaded) =>
            dark' = IF localStorage.theme # "null" THEN dark ELSE prefersDark'
       /\ lastStep' = "themeToggle" => localStorage'.theme # "null"
       /\ localStorage.theme # "null" => localStorage'.theme # "null"]_vars

\* The user chose the light theme and the system has turned to dark since:
\* the page is still light.
C26_Witness ==
    /\ lastStep = "systemPreference"
    /\ loaded
    /\ localStorage.theme = "light"
    /\ prefersDark
    /\ ~dark

\* C27: a click on the start button sends the request only if both
\* questions are non-empty after trimming and the repetitions field holds a
\* numeral of at least 1; any other click shows the validation message,
\* sends nothing and leaves the form enabled.
C27_AutomationValidated ==
    [][lastStep' = "runAutomation" =>
        LET valid == /\ Len(Trim(form'.initial_question)) > 0
                     /\ Len(Trim(form'.follow_up_question)) > 0
                     /\ IsNumeral(form'.repetitions)
                     /\ parseInt(form'.repetitions).val >= 1
        IN  IF valid
            THEN automationRequests' = automationRequests + 1
            ELSE /\ automationRequests' = automationRequests
                 /\ status' = "Please fill in all fields"
                 /\ ~formDisabled']_vars

\* The values of the list at the positions in checked, in the order of the
\* list.
RECURSIVE ReasonsAt(_, _, _)
ReasonsAt(list, checked, i) ==
    IF i > Len(list) THEN <<>>
    ELSE (IF i \in checked THEN <<list[i]>> ELSE <<>>)
         \o ReasonsAt(list, checked, i + 1)

\* C23: the feedback widget sends a POST only when a thumb type is selected
\* and, for negative feedback, at least one reason is checked; for positive
\* feedback the tags sent are 'helpful' followed by the selected reasons, or
\* by 'Not specified' when none is selected.
C23_PostNeedsTypeAndReasons ==
    [][\A m \in 1..Len(messages) :
         (m <= Len(messages') /\ messages'[m].posts # messages[m].posts) =>
             LET w == messages[m]
                 sent == messages'[m].post
             IN  /\ w.selectedType # "none"
                 /\ sent.feedback_type = w.selectedType
                 /\ w.selectedType = "negative" =>
                      /\ w.checked # {}
                      /\ sent.feedback_tags =
                           ReasonsAt(FEEDBACK_CONFIG.negativeReasons,
                                     w.checked, 1)
                 /\ w.selectedType = "positive" =>
                      sent.feedback_tags =
                          <<"helpful">> \o
                          (IF w.checked = {} THEN <<"Not specified">>
                           ELSE ReasonsAt(FEEDBACK_CONFIG.positiveReasons,
                                          w.checked, 1))]_vars

\* Positive feedback was posted with no reason selected.
C23_Witness ==
    /\ lastStep = "submit"
    /\ \E m \in 1..Len(messages) :
         /\ messages[m].posts = 1
         /\ messages[m].post.feedback_tags = <<"helpful", "Not specified">>

\* C24: if a feedback POST fails (network error, or a response whose success
\* is not true), the message is no longer marked as submitted and the user
\* can submit feedback for the same message again: the widget still has its
\* thumbs and its submit button.
C24_FailedFeedbackCanBeRepeated ==
    \A m \in 1..Len(messages) :
        (messages[m].failed /\ messages[m].inFlight = 0) =>
            /\ m \notin feedbackSubmissions
            /\ messages[m].controls

\* C25: for each message id at most one feedback POST is in flight at any
\* time (a click on Submit while a POST is pending sends nothing), and once
\* a POST for a message has succeeded no further POST is sent for it.
C25_OnePostPerMessage ==
    /\ [](\A m \in 1..Len(messages) : messages[m].inFlight <= 1)
    /\ [][\A m \in 1..Len(messages) :
            (messages[m].inFlight > 0 \/ messages[m].succeeded) =>
                /\ m <= Len(messages')
                /\ messages'[m].posts = messages[m].posts]_vars

\* Submit was clicked while the POST of the message was pending.
C25_Witness ==
    /\ lastStep = "submitRefused"
    /\ \E m \in 1..Len(messages) :
         /\ messages[m].inFlight = 1
         /\ messages[m].posts = 1
         /\ messages[m].controls
         /\ m \in feedbackSubmissions

============================================================================
